---- MODULE Spec2Model ----
(***************************************************************************)
(* Authentication and token lifecycle of the M365 Copilot MCP server.      *)
(*                                                                         *)
(* The model follows auth/identity.ts (AuthenticationManager, the module   *)
(* level singleton authManager, the flag isAuthenticated, logout and       *)
(* requireAuthentication) and the call_tool handler of server.ts.          *)
(*                                                                         *)
(* Time is counted in minutes.  An async function is cut at its awaits:    *)
(* the code between two awaits is one atomic action, and the position of   *)
(* every invocation in flight is the pc field of its entry in proc.        *)
(***************************************************************************)
EXTENDS Integers, Sequences, FiniteSets, TLC

(***************************************************************************)
(* Bounds of the model.                                                    *)
(***************************************************************************)
\* Date.now() runs from 0 to MaxTime minutes.
MaxTime == 3
\* The identity provider issues at most MaxIssued access tokens.
MaxIssued == 2
\* Longest list of hits one retrieval request is answered with.
MaxHits == 2

\* The invocations that can be in flight at the same time.
Procs == {1, 2}
\* The managers that can be referenced at the same time: the singleton and
\* one per invocation that still holds a discarded one.
MgrIds == 1..(Cardinality(Procs) + 1)
\* Lifetimes (minutes) of the tokens the identity provider issues.
Lifetimes == {5, 7}
\* Accounts the identity provider can report from authenticate().
Accounts == {"alice@contoso.com"}

(***************************************************************************)
(* Program constants.                                                      *)
(***************************************************************************)
\* 5 * 60 * 1000 ms, in minutes.
RENEWAL_SKEW == 5
\* 0o600, the mode given to writeFileSync.
MODE_0600 == 384
\* Modes of an account record file that another program left behind (0o644).
ForeignModes == {420}

REQUIRED_SCOPES ==
    << "https://graph.microsoft.com/Sites.Read.All",
       "https://graph.microsoft.com/Mail.Read",
       "https://graph.microsoft.com/People.Read.All",
       "https://graph.microsoft.com/OnlineMeetingTranscript.Read.All",
       "https://graph.microsoft.com/Chat.Read",
       "https://graph.microsoft.com/ChannelMessage.Read.All",
       "https://graph.microsoft.com/ExternalItem.Read.All",
       "https://graph.microsoft.com/Files.Read.All" >>

\* Scope lists a caller of getAccessToken passes: every caller in the
\* repository passes REQUIRED_SCOPES.
ScopeLists == { REQUIRED_SCOPES }

DEFAULT_CLIENT_ID == "f44ab954-9e38-4330-aa49-e93d73ab0ea6"
DEFAULT_TENANT_ID == "common"

headlessIndicators ==
    << "Unable to open a browser",
       "no browser",
       "DISPLAY",
       "headless",
       "Cannot open browser",
       "browser window",
       "CredentialUnavailableError" >>

(***************************************************************************)
(* Strings: Array.join, String.toLowerCase, String.includes.               *)
(***************************************************************************)
RECURSIVE Join(_, _)
Join(list, sep) ==
    IF Len(list) = 0 THEN ""
    ELSE IF Len(list) = 1 THEN list[1]
    ELSE list[1] \o sep \o Join(Tail(list), sep)

UpperCase == "ABCDEFGHIJKLMNOPQRSTUVWXYZ"
LowerCase == "abcdefghijklmnopqrstuvwxyz"

LowerChar(c) ==
    IF \E i \in 1..Len(UpperCase) : SubSeq(UpperCase, i, i) = c
    THEN LET i == CHOOSE j \in 1..Len(UpperCase) : SubSeq(UpperCase, j, j) = c
         IN  SubSeq(LowerCase, i, i)
    ELSE c

RECURSIVE ToLowerCase(_)
ToLowerCase(s) ==
    IF Len(s) = 0 THEN ""
    ELSE LowerChar(SubSeq(s, 1, 1)) \o ToLowerCase(SubSeq(s, 2, Len(s)))

Includes(s, t) ==
    \E i \in 1..(Len(s) - Len(t) + 1) : SubSeq(s, i, i + Len(t) - 1) = t

(***************************************************************************)
(* Errors.  name is the class name, code the MCPError code ("" for an      *)
(* error that is no MCPError), details the details object.                 *)
(***************************************************************************)
NoDetails == [none |-> TRUE]
NoError == [name |-> "", code |-> "", message |-> "", details |-> NoDetails]

AuthenticationError(message, details) ==
    [name |-> "AuthenticationError", code |-> "AUTHENTICATION_ERROR",
     message |-> message, details |-> details]

ConfigurationError(message, details) ==
    [name |-> "ConfigurationError", code |-> "CONFIGURATION_ERROR",
     message |-> message, details |-> details]

ValidationError(message, details) ==
    [name |-> "ValidationError", code |-> "VALIDATION_ERROR",
     message |-> message, details |-> details]

\* What callGraphApi throws when the request fails.
APIError ==
    [name |-> "APIError", code |-> "API_ERROR",
     message |-> "Graph API request failed", details |-> NoDetails]

\* What @azure/identity throws from getToken and authenticate.
ProviderErrors ==
    { [name |-> "CredentialUnavailableError", code |-> "",
       message |-> "InteractiveBrowserCredential is not available", details |-> NoDetails],
      [name |-> "Error", code |-> "",
       message |-> "Cannot open display: unable to open a Browser Window", details |-> NoDetails],
      [name |-> "AuthenticationRequiredError", code |-> "",
       message |-> "User cancelled the login", details |-> NoDetails] }

\* formatErrorResponse(error): the payload of an isError response.
formatErrorResponse(error) ==
    IF error.code # ""
    THEN [message |-> error.message, code |-> error.code, details |-> error.details]
    ELSE [message |-> error.message, code |-> "UNKNOWN_ERROR", details |-> NoDetails]

(***************************************************************************)
(* shouldFallbackToDeviceCode(error)                                       *)
(***************************************************************************)
\* A test that looks at the message alone, in the letter case it has.
shouldFallbackMessageAsWritten(error) ==
    \E k \in 1..Len(headlessIndicators) :
        Includes(error.message, headlessIndicators[k])

shouldFallbackToDeviceCode(error) ==
    LET errorMsg == ToLowerCase(error.message)
        errorName == ToLowerCase(error.name)
    IN  \E k \in 1..Len(headlessIndicators) :
            \/ Includes(errorMsg, ToLowerCase(headlessIndicators[k]))
            \/ Includes(errorName, ToLowerCase(headlessIndicators[k]))

(***************************************************************************)
(* Account record file: serializeAuthenticationRecord and                  *)
(* deserializeAuthenticationRecord.                                        *)
(***************************************************************************)
NoRecord == ""
RecordPrefix == "{\"username\":\""
RecordSuffix == "\"}"
Garbage == "\\x00garbage"

serializeAuthenticationRecord(record) == RecordPrefix \o record \o RecordSuffix

CanDeserialize(data) ==
    /\ Len(data) >= Len(RecordPrefix) + Len(RecordSuffix)
    /\ SubSeq(data, 1, Len(RecordPrefix)) = RecordPrefix
    /\ SubSeq(data, Len(data) - Len(RecordSuffix) + 1, Len(data)) = RecordSuffix

deserializeAuthenticationRecord(data) ==
    SubSeq(data, Len(RecordPrefix) + 1, Len(data) - Len(RecordSuffix))

(***************************************************************************)
(* State.                                                                  *)
(***************************************************************************)
VARIABLES
    now,              \* Date.now(), in minutes
    env,              \* process.env: AZURE_TENANT_ID, AZURE_CLIENT_ID, AUTH_METHOD
    authManager,      \* the singleton: 0 (null) or the id of a manager
    isAuthenticated,  \* the module-level flag
    mgr,              \* the AuthenticationManager objects, by id
    authDir,          \* ~/.IdentityService exists
    authFile,         \* m365-copilot-mcp-auth.json: [exists, content, mode]
    cacheFile,        \* the persisted token cache file exists
    issued,           \* number of access tokens the identity provider issued
    proc,             \* the invocations in flight: position and locals
    last,             \* what the invocation that ended in the last step returned
    cachedConversationId  \* tools/chat.ts: the conversation id of the session

vars == << now, env, authManager, isAuthenticated, mgr, authDir, authFile,
           cacheFile, issued, proc, last, cachedConversationId >>

NullCredential == [kind |-> "null", authenticationRecord |-> NoRecord]
EmptyCache == [k \in {} |-> 0]
NoConfig == [tenantId |-> "", clientId |-> "", authMethod |-> ""]
NoFile == [exists |-> FALSE, content |-> "", mode |-> 0]

\* new AuthenticationManager(config)
FreshManager(config) ==
    [alloc |-> TRUE, config |-> config, credential |-> NullCredential,
     tokenCache |-> EmptyCache, authRecord |-> NoRecord]

\* A slot of the heap that holds no object.
FreeSlot ==
    [alloc |-> FALSE, config |-> NoConfig, credential |-> NullCredential,
     tokenCache |-> EmptyCache, authRecord |-> NoRecord]

\* Objects nothing refers to any more are dropped (garbage collection).
Collect(ms, am, prs) ==
    [i \in MgrIds |->
        IF i = am \/ \E p \in Procs : prs[p].m = i THEN ms[i] ELSE FreeSlot]

FreeId == CHOOSE i \in MgrIds : ~mgr[i].alloc /\ \A j \in MgrIds : ~mgr[j].alloc => i <= j

\* loadConfigFromEnv()
loadConfigFromEnv ==
    [tenantId |-> IF env.AZURE_TENANT_ID # "" THEN env.AZURE_TENANT_ID ELSE DEFAULT_TENANT_ID,
     clientId |-> IF env.AZURE_CLIENT_ID # "" THEN env.AZURE_CLIENT_ID ELSE DEFAULT_CLIENT_ID,
     authMethod |-> IF env.AUTH_METHOD # "" THEN env.AUTH_METHOD ELSE "InteractiveBrowser"]

\* The environments the process is started in.
Environments ==
    { [AZURE_TENANT_ID |-> "", AZURE_CLIENT_ID |-> "", AUTH_METHOD |-> ""],
      [AZURE_TENANT_ID |-> "contoso.onmicrosoft.com", AZURE_CLIENT_ID |-> "",
       AUTH_METHOD |-> "DeviceCode"] }

\* Explicit configurations passed to getAuthManager(config).
ExplicitConfigs ==
    { [tenantId |-> "", clientId |-> DEFAULT_CLIENT_ID, authMethod |-> ""],
      [tenantId |-> DEFAULT_TENANT_ID, clientId |-> "", authMethod |-> "DeviceCode"],
      [tenantId |-> "contoso com", clientId |-> DEFAULT_CLIENT_ID, authMethod |-> ""] }

\* The files the process finds at start.
InitialFiles ==
    { [dir |-> FALSE, file |-> NoFile, cache |-> FALSE],
      [dir |-> TRUE, cache |-> TRUE,
       file |-> [exists |-> TRUE, content |-> Garbage, mode |-> 420]],
      [dir |-> TRUE, cache |-> TRUE,
       file |-> [exists |-> TRUE, mode |-> MODE_0600,
                 content |-> serializeAuthenticationRecord("alice@contoso.com")]] }

NoResult == [status |-> "none", token |-> 0, error |-> NoError]

\* What the state was when the last step of an invocation began.
NoPre == [ready |-> FALSE, manager |-> FALSE, cached |-> FALSE,
          file |-> FALSE, cacheFile |-> FALSE]
NoReturn == [op |-> "none", res |-> NoResult, pre |-> NoPre, steps |-> << >>,
             calls |-> 0]

\* let cachedConversationId: string | null = null.  The code tests the id
\* for truthiness only, so null, undefined and "" are one value here.
NoConversation == ""

IdleProc ==
    [pc |-> "idle", op |-> "none", m |-> 0, scopes |-> << >>, inRA |-> FALSE,
     valid |-> TRUE, origErr |-> NoError, token |-> 0, res |-> NoResult,
     steps |-> << >>, calls |-> 0, conversationId |-> "", active |-> "",
     sharePoint |-> << >>, oneDrive |-> << >>]

Init ==
    /\ now = 0
    /\ env \in Environments
    /\ authManager = 0
    /\ isAuthenticated = FALSE
    /\ mgr = [i \in MgrIds |-> FreeSlot]
    /\ \E f \in InitialFiles :
          /\ authDir = f.dir
          /\ authFile = f.file
          /\ cacheFile = f.cache
    /\ issued = 0
    /\ proc = [p \in Procs |-> IdleProc]
    /\ last = NoReturn
    /\ cachedConversationId = NoConversation

(***************************************************************************)
(* AuthenticationManager: the synchronous methods, as functions of the     *)
(* manager object M.                                                       *)
(***************************************************************************)
\* A test that looks at the tenant id alone.
isConfiguredTenantOnly(M) == M.config.tenantId # ""

\* isConfigured(): !!(tenantId && clientId)
isConfigured(M) == M.config.tenantId # "" /\ M.config.clientId # ""

\* hasAuthRecord()
hasAuthRecord(M) == M.authRecord # NoRecord

\* A load that takes whatever the file holds for a record.
loadAuthRecordUnparsed == IF authFile.exists THEN authFile.content ELSE NoRecord

\* What loadAuthRecord() returns: the record of a readable file, else null.
loadAuthRecord ==
    IF authFile.exists /\ CanDeserialize(authFile.content)
    THEN deserializeAuthenticationRecord(authFile.content)
    ELSE NoRecord

\* The credential initialize() constructs from the configured method.
createCredential(M, authRecord) ==
    [kind |-> IF M.config.authMethod = "DeviceCode" THEN "DeviceCode" ELSE "InteractiveBrowser",
     authenticationRecord |-> authRecord]

\* The credential constructors of @azure/identity check the tenant id they
\* are given and throw a plain Error when it holds a character outside these.
TenantIdChars == "0123456789abcdefghijklmnopqrstuvwxyzABCDEFGHIJKLMNOPQRSTUVWXYZ-."

TenantIds ==
    {c.tenantId : c \in ExplicitConfigs}
        \cup {e.AZURE_TENANT_ID : e \in Environments} \cup {DEFAULT_TENANT_ID}

\* Whether new InteractiveBrowserCredential / new DeviceCodeCredential
\* returns for the tenant id, computed once for each.
ConstructorAccepts ==
    [t \in TenantIds |->
        \A i \in 1..Len(t) : Includes(TenantIdChars, SubSeq(t, i, i))]

ConstructorError ==
    [name |-> "Error", code |-> "", message |-> "Invalid tenant id provided.",
     details |-> NoDetails]

\* initialize()'s catch block: logError, then throw error.
InitializeCatch(error) == error

\* The manager after an initialize() whose credential constructor threw:
\* loadAuthRecord has run, this.credential was not assigned.
initializeThrown(M) ==
    [M EXCEPT !.authRecord = IF loadAuthRecord # NoRecord THEN loadAuthRecord ELSE @]

\* An initialize() that starts from an empty token cache.
initializeClearingCache(M) ==
    [M EXCEPT !.authRecord = IF loadAuthRecord # NoRecord THEN loadAuthRecord ELSE @,
              !.credential = createCredential(M, loadAuthRecord),
              !.tokenCache = EmptyCache]

\* The manager after an initialize() that did not throw: loadAuthRecord
\* assigns this.authRecord only when it read a record.
initialize(M) ==
    [M EXCEPT !.authRecord = IF loadAuthRecord # NoRecord THEN loadAuthRecord ELSE @,
              !.credential = createCredential(M, loadAuthRecord)]

\* The failure of initialize() reported as an authentication failure.
InitializeErrorAsAuthentication(M) ==
    AuthenticationError("Missing required Azure AD configuration",
        [hasTenantId |-> M.config.tenantId # "", hasClientId |-> M.config.clientId # ""])

\* The error initialize() throws on a configuration without tenant or client id.
InitializeError(M) ==
    ConfigurationError("Missing required Azure AD configuration",
        [hasTenantId |-> M.config.tenantId # "", hasClientId |-> M.config.clientId # ""])

\* A cache test that takes a token at the edge of the window for fresh.
IsFreshInclusive(entry, t) == entry.expiresAt >= t + RENEWAL_SKEW

\* The cache test of getAccessToken: cached.expiresAt > Date.now() + 5 * 60 * 1000
IsFresh(entry, t) == entry.expiresAt > t + RENEWAL_SKEW

scopeKey(scopes) == Join(scopes, ",")

\* scopeKey of every scope list a caller passes, computed once.
ScopeKeys == [scopes \in ScopeLists |-> scopeKey(scopes)]

\* cached && fresh
CacheHit(M, scopes, t) ==
    /\ ScopeKeys[scopes] \in DOMAIN M.tokenCache
    /\ IsFresh(M.tokenCache[ScopeKeys[scopes]], t)

\* A store that keeps the entry the key already has.
CacheSetIfAbsent(M, scopes, tok, expiresAt) ==
    [M EXCEPT !.tokenCache =
        @ @@ (ScopeKeys[scopes] :> [token |-> tok, expiresAt |-> expiresAt])]

\* this.tokenCache.set(scopeKey, {token, expiresAt})
CacheSet(M, scopes, tok, expiresAt) ==
    [M EXCEPT !.tokenCache =
        (ScopeKeys[scopes] :> [token |-> tok, expiresAt |-> expiresAt]) @@ @]

\* clearCache()
clearCache(M) == [M EXCEPT !.tokenCache = EmptyCache]

\* getAuthStatus()
getAuthStatus(M) ==
    [initialized |-> M.credential.kind # "null",
     configured |-> isConfigured(M),
     credentialType |-> M.credential.kind,
     cacheSize |-> Cardinality(DOMAIN M.tokenCache)]

(***************************************************************************)
(* getAuthManager(config): the heap and the singleton after the call.      *)
(***************************************************************************)
SingletonId == IF authManager # 0 THEN authManager ELSE FreeId

getAuthManager(config) ==
    IF authManager # 0 THEN mgr
    ELSE [mgr EXCEPT ![FreeId] = FreshManager(config)]

(***************************************************************************)
(* Where an invocation goes when a function it called returns or throws.   *)
(* pr is the invocation's record.                                          *)
(***************************************************************************)
\* History of the invocation: the steps of requireAuthentication it has
\* taken, and the number of times its getAccessToken call invoked getToken.
Log(pr, events) == [pr EXCEPT !.steps = @ \o events]
Called(pr) == [pr EXCEPT !.calls = @ + 1]

\* The invocation is over, with this result.
Finish(pr, status, tok, err) ==
    [pr EXCEPT !.pc = "idle", !.m = 0, !.inRA = FALSE, !.origErr = NoError,
               !.token = 0,
               !.res = [status |-> status, token |-> tok, error |-> err]]

\* A handler without a catch: the error leaves the handler.
HandlerRethrow(pr, err) == Finish(pr, "error", 0, err)

\* The call_tool handler's catch: the error becomes an isError payload.
HandlerCatch(pr, err) ==
    Finish(pr, "isError", 0,
           [name |-> ""] @@ formatErrorResponse(err))

\* requireAuthentication's catch: every error is wrapped.
RaWrap(err) ==
    AuthenticationError(
        "Failed to authenticate: " \o err.message
            \o ". Please check your Azure AD configuration.",
        [error |-> err.message])

\* A handler that goes on to the tool function when authentication failed.
RaThrowIgnored(pr, err) ==
    IF pr.op = "tool"
    THEN [pr EXCEPT !.pc = "tool_afterAuth", !.inRA = FALSE, !.m = 0]
    ELSE Finish(pr, "error", 0, RaWrap(err))

RaThrow(pr, err) ==
    IF pr.op = "tool" THEN HandlerCatch(pr, RaWrap(err))
    ELSE Finish(pr, "error", 0, RaWrap(err))

\* requireAuthentication returned: the handler goes on after its await.
RaOk(pr) ==
    IF pr.op = "tool"
    THEN [pr EXCEPT !.pc = "tool_afterAuth", !.inRA = FALSE, !.m = 0]
    ELSE Finish(pr, "ok", 0, NoError)

\* getAccessToken threw err to its caller.
GatThrow(pr, err) ==
    IF pr.inRA THEN RaThrow(pr, err)
    ELSE IF pr.op = "tool" THEN HandlerCatch(pr, err)
    ELSE Finish(pr, "error", 0, err)

\* getAccessToken returned tok to its caller.
GatOk(pr, tok) ==
    IF pr.inRA
    THEN [Log(pr, << "token" >>) EXCEPT !.pc = "ra_afterToken", !.origErr = NoError]
    ELSE IF pr.op = "tool"
         THEN [pr EXCEPT !.pc = "tool_afterToken", !.token = tok, !.m = 0,
                         !.origErr = NoError]
         ELSE IF pr.op = "chat"
         THEN [pr EXCEPT !.pc = "chat_afterToken", !.token = tok, !.m = 0,
                         !.origErr = NoError]
         ELSE IF pr.op = "retrieval"
         THEN [pr EXCEPT !.pc = "retrieval_afterToken", !.token = tok, !.m = 0,
                         !.origErr = NoError]
         ELSE Finish(pr, "ok", tok, NoError)

\* getAccessToken(scopes) on manager M, up to its first await or its return.
GatEntry(pr, id, M, scopes) ==
    LET key == ScopeKeys[scopes]
        seen == [pr EXCEPT !.m = id, !.scopes = scopes, !.calls = 0]
    IN  IF M.credential.kind = "null"
        THEN GatThrow(pr,
                      AuthenticationError(
                          "Authentication not initialized. Call initialize() first.",
                          NoDetails))
        ELSE IF CacheHit(M, scopes, now)
        THEN GatOk(seen, M.tokenCache[key].token)
        ELSE [Called(seen) EXCEPT !.pc = "gat_wait1"]

\* A new invocation of operation op in slot p.
Begin(p, op) == [IdleProc EXCEPT !.op = op]

\* A new invocation takes the lowest slot that is free.
Idle(p) ==
    /\ proc[p].pc = "idle"
    /\ \A q \in Procs : q < p => proc[q].pc # "idle"

\* The step of invocation p leads to record r.  When r is the end of the
\* invocation the slot is freed and last reports what it returned and what
\* the state was before the step; last is NoReturn after every step that
\* ends no invocation.
Pre ==
    [ready |-> isAuthenticated,
     manager |-> authManager # 0,
     cached |-> authManager # 0 /\ mgr[authManager].tokenCache # EmptyCache,
     file |-> authFile.exists,
     cacheFile |-> cacheFile]

ChatStep(p, r, conversation) ==
    /\ proc' = [proc EXCEPT ![p] = IF r.pc = "idle" THEN IdleProc ELSE r]
    /\ last' = IF r.pc = "idle"
               THEN [op |-> r.op, res |-> r.res, pre |-> Pre, steps |-> r.steps,
                     calls |-> r.calls]
               ELSE NoReturn
    /\ cachedConversationId' = conversation

\* A step in which a returning logout() also forgets the conversation id.
StepLogoutForgetting(p, r) ==
    ChatStep(p, r, IF r.pc = "idle" /\ r.op = "logout" THEN NoConversation
                   ELSE cachedConversationId)

\* A step of any code but tools/chat.ts leaves the conversation id alone.
Step(p, r) == ChatStep(p, r, cachedConversationId)

(***************************************************************************)
(* requireAuthentication(), up to its first await or its return.  The      *)
(* caller is a direct call (op "ensure") or the call_tool handler.         *)
(***************************************************************************)
RaEntry(p, pr) ==
    IF isAuthenticated
    THEN /\ Step(p, RaOk(Log(pr, << "fast" >>)))
         /\ UNCHANGED << authManager, isAuthenticated, mgr, authDir >>
    ELSE LET id == SingletonId
             ms == getAuthManager(loadConfigFromEnv)
         IN  /\ authManager' = id
             /\ UNCHANGED isAuthenticated
             /\ IF ~isConfigured(ms[id])
                THEN /\ Step(p, RaThrow(Log(pr, << "configCheck" >>),
                                ConfigurationError(
                                    "Authentication not configured. Missing AZURE_TENANT_ID or AZURE_CLIENT_ID.",
                                    [configured |-> FALSE])))
                     /\ mgr' = Collect(ms, id, proc')
                     /\ UNCHANGED authDir
                ELSE IF ~ConstructorAccepts[ms[id].config.tenantId]
                THEN /\ Step(p, RaThrow(Log(pr, << "configCheck", "initialize" >>),
                                InitializeCatch(ConstructorError)))
                     /\ mgr' = Collect([ms EXCEPT ![id] = initializeThrown(ms[id])],
                                       id, proc')
                     /\ authDir' = TRUE
                ELSE /\ Step(p, [Log(pr, << "configCheck", "initialize" >>)
                                EXCEPT !.pc = "ra_afterInit", !.m = id, !.inRA = TRUE])
                     /\ mgr' = Collect([ms EXCEPT ![id] = initialize(ms[id])], id, proc')
                     /\ authDir' = TRUE

\* ensureAuthentication: a direct call of requireAuthentication().
StartEnsure(p) ==
    /\ Idle(p)
    /\ RaEntry(p, Begin(p, "ensure"))
    /\ UNCHANGED << now, env, authFile, cacheFile, issued >>

\* A handler that validates the parameters before it authenticates.
StartToolValidatingFirst(p, valid) ==
    /\ Idle(p)
    /\ IF valid
       THEN RaEntry(p, [Begin(p, "tool") EXCEPT !.valid = valid])
       ELSE /\ Step(p, HandlerCatch(Begin(p, "tool"),
                       ValidationError("Parameter must be a non-empty string",
                                       NoDetails)))
            /\ UNCHANGED << authManager, isAuthenticated, mgr, authDir >>
    /\ UNCHANGED << now, env, authFile, cacheFile, issued >>

\* call_tool for one of the tools that need authentication; valid says
\* whether the required parameters pass validation.
StartTool(p, valid) ==
    /\ Idle(p)
    /\ RaEntry(p, [Begin(p, "tool") EXCEPT !.valid = valid])
    /\ UNCHANGED << now, env, authFile, cacheFile, issued >>

\* requireAuthentication after await initialize(): getAccessToken(REQUIRED_SCOPES).
RaAfterInit(p) ==
    /\ proc[p].pc = "ra_afterInit"
    /\ Step(p, GatEntry(proc[p], proc[p].m, mgr[proc[p].m], REQUIRED_SCOPES))
    /\ mgr' = Collect(mgr, authManager, proc')
    /\ UNCHANGED << now, env, authManager, isAuthenticated, authDir, authFile,
                    cacheFile, issued >>

(***************************************************************************)
(* getAccessToken after an await on credential.getToken(scopes).           *)
(***************************************************************************)
\* The provider returned a token (first attempt or DeviceCode retry).
GetTokenReturns(p, lifetime) ==
    /\ proc[p].pc \in {"gat_wait1", "gat_wait2"}
    /\ issued < MaxIssued
    /\ issued' = issued + 1
    /\ cacheFile' = TRUE
    /\ Step(p, GatOk(proc[p], issued + 1))
    /\ mgr' = Collect(
          [mgr EXCEPT ![proc[p].m] =
              CacheSet(@, proc[p].scopes, issued + 1, now + lifetime)],
          authManager, proc')
    /\ UNCHANGED << now, env, authManager, isAuthenticated, authDir, authFile >>

\* What the catch block sees when getToken resolved to nothing.
NoTokenError == AuthenticationError("Failed to obtain access token", NoDetails)
NoTokenErrorDeviceCode ==
    AuthenticationError("Failed to obtain access token with DeviceCode", NoDetails)

\* The outcomes of a getToken that yields no token: it throws, or returns null.
GetTokenFailures == ProviderErrors \cup {NoError}

\* The errors the catch block of the first attempt can see.
CaughtErrors == ProviderErrors \cup {NoTokenError}

\* shouldFallbackToDeviceCode of each of them, computed once.
ShouldFallback == [error \in CaughtErrors |-> shouldFallbackToDeviceCode(error)]

\* A catch block that never retries.
NeverRetry(M, error) == FALSE

\* The condition of the retry in the catch block.
ShouldRetry(M, error) ==
    M.credential.kind = "InteractiveBrowser" /\ ShouldFallback[error]

\* A catch block whose retry goes to the credential it already has.
FirstCatchKeepingCredential(p, error) ==
    LET pr == proc[p]
        M == mgr[pr.m]
    IN  IF ShouldRetry(M, error)
        THEN /\ Step(p, [Called(pr)
                        EXCEPT !.pc = "gat_wait2", !.origErr = error])
             /\ mgr' = mgr
        ELSE /\ Step(p, GatThrow(pr,
                        AuthenticationError(
                            "Failed to obtain access token: " \o error.message,
                            [scopes |-> pr.scopes, errorName |-> error.name])))
             /\ mgr' = Collect(mgr, authManager, proc')

\* The catch block of the first attempt, for the error it caught.
FirstCatch(p, error) ==
    LET pr == proc[p]
        M == mgr[pr.m]
    IN  IF ShouldRetry(M, error)
        THEN /\ Step(p, [Called(pr)
                        EXCEPT !.pc = "gat_wait2", !.origErr = error])
             /\ mgr' = [mgr EXCEPT ![pr.m].credential =
                    [kind |-> "DeviceCode", authenticationRecord |-> M.authRecord]]
        ELSE /\ Step(p, GatThrow(pr,
                        AuthenticationError(
                            "Failed to obtain access token: " \o error.message,
                            [scopes |-> pr.scopes, errorName |-> error.name])))
             /\ mgr' = Collect(mgr, authManager, proc')

\* A failed attempt that has written a record file all the same.
GetTokenFailsRecordWritten(p, outcome) ==
    /\ proc[p].pc = "gat_wait1"
    /\ FirstCatch(p, IF outcome = NoError THEN NoTokenError ELSE outcome)
    /\ authFile' = [exists |-> TRUE, mode |-> MODE_0600,
                    content |-> serializeAuthenticationRecord("alice@contoso.com")]
    /\ UNCHANGED << now, env, authManager, isAuthenticated, authDir,
                    cacheFile, issued >>

\* The first attempt failed: the provider threw, or returned no token.
GetTokenFails(p, outcome) ==
    /\ proc[p].pc = "gat_wait1"
    /\ FirstCatch(p, IF outcome = NoError THEN NoTokenError ELSE outcome)
    /\ UNCHANGED << now, env, authManager, isAuthenticated, authDir, authFile,
                    cacheFile, issued >>

\* A catch block of the retry that also drops the manager's cached tokens.
RetryFailsClearingCache(p, outcome) ==
    /\ proc[p].pc = "gat_wait2"
    /\ LET pr == proc[p]
           fallbackError == IF outcome = NoError THEN NoTokenErrorDeviceCode ELSE outcome
       IN  Step(p, GatThrow(pr,
                  AuthenticationError(
                      "Failed to obtain access token (both InteractiveBrowser and DeviceCode failed): "
                          \o fallbackError.message,
                      [scopes |-> pr.scopes,
                       originalError |-> pr.origErr.message,
                       fallbackError |-> fallbackError.message])))
    /\ mgr' = Collect([mgr EXCEPT ![proc[p].m] = clearCache(@)], authManager, proc')
    /\ UNCHANGED << now, env, authManager, isAuthenticated, authDir, authFile,
                    cacheFile, issued >>

\* A catch block of the retry that asks the provider once more.
RetryFailsRetrying(p, outcome) ==
    /\ proc[p].pc = "gat_wait2"
    /\ Step(p, Called(proc[p]))
    /\ UNCHANGED << now, env, authManager, isAuthenticated, mgr, authDir, authFile,
                    cacheFile, issued >>

\* The DeviceCode retry failed too.
RetryFails(p, outcome) ==
    /\ proc[p].pc = "gat_wait2"
    /\ LET pr == proc[p]
           fallbackError == IF outcome = NoError THEN NoTokenErrorDeviceCode ELSE outcome
       IN  Step(p, GatThrow(pr,
                  AuthenticationError(
                      "Failed to obtain access token (both InteractiveBrowser and DeviceCode failed): "
                          \o fallbackError.message,
                      [scopes |-> pr.scopes,
                       originalError |-> pr.origErr.message,
                       fallbackError |-> fallbackError.message])))
    /\ mgr' = Collect(mgr, authManager, proc')
    /\ UNCHANGED << now, env, authManager, isAuthenticated, authDir, authFile,
                    cacheFile, issued >>

(***************************************************************************)
(* requireAuthentication after await getAccessToken(REQUIRED_SCOPES).      *)
(***************************************************************************)
\* A requireAuthentication that marks readiness before the record is there.
RaAfterTokenReadyFirst(p) ==
    /\ proc[p].pc = "ra_afterToken"
    /\ isAuthenticated' = TRUE
    /\ IF hasAuthRecord(mgr[proc[p].m])
       THEN Step(p, RaOk(Log(proc[p], << "ready" >>)))
       ELSE Step(p, [Log(proc[p], << "authenticate" >>) EXCEPT !.pc = "ra_waitAuth"])
    /\ mgr' = Collect(mgr, authManager, proc')
    /\ UNCHANGED << now, env, authManager, authDir, authFile, cacheFile, issued >>

\* With a record held: isAuthenticated = true.  Without: ensureAuthRecord
\* runs up to its await on credential.authenticate(scopes).
RaAfterToken(p) ==
    /\ proc[p].pc = "ra_afterToken"
    /\ IF hasAuthRecord(mgr[proc[p].m])
       THEN /\ isAuthenticated' = TRUE
            /\ Step(p, RaOk(Log(proc[p], << "ready" >>)))
       ELSE /\ UNCHANGED isAuthenticated
            /\ Step(p, [Log(proc[p], << "authenticate" >>) EXCEPT !.pc = "ra_waitAuth"])
    /\ mgr' = Collect(mgr, authManager, proc')
    /\ UNCHANGED << now, env, authManager, authDir, authFile, cacheFile, issued >>

\* ensureAuthRecord returns to its caller: requireAuthentication, which
\* goes on after its await, or a direct caller.
EarReturn(pr) ==
    IF pr.inRA THEN [pr EXCEPT !.pc = "ra_afterRecord"]
    ELSE Finish(pr, "ok", 0, NoError)

\* The faults of the file system while the record file is written.
SaveFaults == {"none", "write"}

\* A save that appends a bearer token to the serialized record.
WrittenFileWithToken(record) ==
    [exists |-> TRUE,
     content |-> serializeAuthenticationRecord(record) \o ":bearer",
     mode |-> IF authFile.exists THEN authFile.mode ELSE MODE_0600]

\* The record file after writeFileSync(path, serialized, {mode: 0o600}): the
\* mode is applied when the call creates the file.
WrittenFile(record) ==
    [exists |-> TRUE,
     content |-> serializeAuthenticationRecord(record),
     mode |-> IF authFile.exists THEN authFile.mode ELSE MODE_0600]

\* authenticate() returned a record: saveAuthRecord(record), whose failure
\* is caught and logged.
AuthenticateReturns(p, record, fault) ==
    /\ proc[p].pc = "ra_waitAuth"
    /\ IF fault = "none"
       THEN /\ authFile' = WrittenFile(record)
            /\ authDir' = TRUE
            /\ Step(p, EarReturn(proc[p]))
            /\ mgr' = Collect([mgr EXCEPT ![proc[p].m].authRecord = record],
                              authManager, proc')
       ELSE /\ UNCHANGED << authFile, authDir >>
            /\ Step(p, EarReturn(proc[p]))
            /\ mgr' = Collect(mgr, authManager, proc')
    /\ UNCHANGED << now, env, authManager, isAuthenticated, cacheFile, issued >>

\* An ensureAuthRecord that lets the failure of authenticate() out.
AuthenticateFailsFatal(p) ==
    /\ proc[p].pc = "ra_waitAuth"
    /\ Step(p, RaThrow(proc[p],
                AuthenticationError("Failed to obtain authentication record", NoDetails)))
    /\ mgr' = Collect(mgr, authManager, proc')
    /\ UNCHANGED << now, env, authManager, isAuthenticated, authDir,
                    authFile, cacheFile, issued >>

\* authenticate() threw, or returned nothing: caught, logged, not fatal.
AuthenticateFails(p) ==
    /\ proc[p].pc = "ra_waitAuth"
    /\ Step(p, EarReturn(proc[p]))
    /\ mgr' = Collect(mgr, authManager, proc')
    /\ UNCHANGED << now, env, authManager, isAuthenticated, authDir,
                    authFile, cacheFile, issued >>

\* requireAuthentication after await ensureAuthRecord(): isAuthenticated = true.
RaAfterRecord(p) ==
    /\ proc[p].pc = "ra_afterRecord"
    /\ isAuthenticated' = TRUE
    /\ Step(p, RaOk(Log(proc[p], << "ready" >>)))
    /\ mgr' = Collect(mgr, authManager, proc')
    /\ UNCHANGED << now, env, authManager, authDir, authFile, cacheFile, issued >>

(***************************************************************************)
(* The call_tool handler after await requireAuthentication().              *)
(***************************************************************************)
\* Parameter validation, then the tool function up to its await on
\* getAuthManager().getAccessToken(REQUIRED_SCOPES).
ToolAfterAuth(p) ==
    /\ proc[p].pc = "tool_afterAuth"
    /\ IF ~proc[p].valid
       THEN /\ Step(p, HandlerCatch(proc[p],
                       ValidationError("Parameter must be a non-empty string",
                                       NoDetails)))
            /\ UNCHANGED << authManager, mgr >>
       ELSE LET id == SingletonId
                ms == getAuthManager(loadConfigFromEnv)
            IN  /\ authManager' = id
                /\ Step(p, GatEntry(proc[p], id, ms[id],
                                REQUIRED_SCOPES))
                /\ mgr' = Collect(ms, id, proc')
    /\ UNCHANGED << now, env, isAuthenticated, authDir, authFile, cacheFile, issued >>

\* callGraphApi(..., accessToken) up to its await on fetch.
ToolAfterToken(p) ==
    /\ proc[p].pc = "tool_afterToken"
    /\ Step(p, [Log(proc[p], << "graph" >>) EXCEPT !.pc = "tool_waitApi"])
    /\ UNCHANGED << now, env, authManager, isAuthenticated, mgr, authDir,
                    authFile, cacheFile, issued >>

\* The Graph API answered: the handler returns the result or the error payload.
GraphResponds(p, ok) ==
    /\ proc[p].pc = "tool_waitApi"
    /\ Step(p, IF ok THEN Finish(proc[p], "ok", proc[p].token, NoError)
           ELSE HandlerCatch(proc[p], APIError))
    /\ UNCHANGED << now, env, authManager, isAuthenticated, mgr, authDir,
                    authFile, cacheFile, issued >>

\* The names the switch of the call_tool handler has a case for.
RegisteredTools == {"m365copilotretrieval", "m365copilotsearch", "m365copilotchat"}

\* Names a call_tool request can carry.
ToolNames == RegisteredTools \cup {"echo", "M365CopilotChat"}

\* A handler that authenticates before it looks at the name.
CallUnknownToolAuthenticating(p, name) ==
    /\ name \notin RegisteredTools
    /\ StartTool(p, FALSE)

\* call_tool with a name the switch has no case for: the default branch
\* throws ValidationError into the handler's catch.
CallUnknownTool(p, name) ==
    /\ name \notin RegisteredTools
    /\ Idle(p)
    /\ Step(p, HandlerCatch(Begin(p, "unknownTool"),
                    ValidationError("Unknown tool: " \o name, [toolName |-> name])))
    /\ UNCHANGED << now, env, authManager, isAuthenticated, mgr, authDir,
                    authFile, cacheFile, issued >>

(***************************************************************************)
(* Direct calls of the public operations on the singleton.                 *)
(***************************************************************************)
\* getAuthManager(config) with an explicit configuration.
GetAuthManager(p, config) ==
    /\ Idle(p)
    /\ authManager' = SingletonId
    /\ Step(p, Finish(Begin(p, "getAuthManager"), "ok", 0, NoError))
    /\ mgr' = Collect(getAuthManager(config), SingletonId, proc')
    /\ UNCHANGED << now, env, isAuthenticated, authDir, authFile, cacheFile, issued >>

\* getAuthManager().getAccessToken(scopes)
StartToken(p, scopes) ==
    /\ Idle(p)
    /\ LET id == SingletonId
           ms == getAuthManager(loadConfigFromEnv)
       IN  /\ authManager' = id
           /\ Step(p, GatEntry(Begin(p, "token"), id, ms[id], scopes))
           /\ mgr' = Collect(ms, id, proc')
    /\ UNCHANGED << now, env, isAuthenticated, authDir, authFile, cacheFile, issued >>

\* getAuthManager().initialize()
Initialize(p) ==
    /\ Idle(p)
    /\ LET id == SingletonId
           ms == getAuthManager(loadConfigFromEnv)
       IN  /\ authManager' = id
           /\ IF ~isConfigured(ms[id])
              THEN /\ Step(p, Finish(Begin(p, "initialize"), "error", 0,
                                 InitializeError(ms[id])))
                   /\ mgr' = Collect(ms, id, proc')
                   /\ UNCHANGED authDir
              ELSE IF ~ConstructorAccepts[ms[id].config.tenantId]
              THEN /\ Step(p, Finish(Begin(p, "initialize"), "error", 0,
                                 InitializeCatch(ConstructorError)))
                   /\ mgr' = Collect([ms EXCEPT ![id] = initializeThrown(ms[id])],
                                     id, proc')
                   /\ authDir' = TRUE
              ELSE /\ Step(p, Finish(Begin(p, "initialize"),
                                 "ok", 0, NoError))
                   /\ mgr' = Collect([ms EXCEPT ![id] = initialize(ms[id])], id, proc')
                   /\ authDir' = TRUE
    /\ UNCHANGED << now, env, isAuthenticated, authFile, cacheFile, issued >>

\* An ensureAuthRecord without the test of this.authRecord.
EnsureAuthRecordUnguarded(p) ==
    /\ Idle(p)
    /\ LET id == SingletonId
           ms == getAuthManager(loadConfigFromEnv)
           pr == Begin(p, "ensureAuthRecord")
       IN  /\ authManager' = id
           /\ IF ms[id].credential.kind = "null"
              THEN Step(p, Finish(pr, "error", 0,
                          AuthenticationError("Credential not initialized", NoDetails)))
              ELSE Step(p, [Log(pr, << "authenticate" >>)
                            EXCEPT !.pc = "ra_waitAuth", !.m = id])
           /\ mgr' = Collect(ms, id, proc')
    /\ UNCHANGED << now, env, isAuthenticated, authDir, authFile, cacheFile, issued >>

\* getAuthManager().ensureAuthRecord(REQUIRED_SCOPES), up to its return or
\* its await on credential.authenticate(scopes).
EnsureAuthRecord(p) ==
    /\ Idle(p)
    /\ LET id == SingletonId
           ms == getAuthManager(loadConfigFromEnv)
           pr == Begin(p, "ensureAuthRecord")
       IN  /\ authManager' = id
           /\ IF hasAuthRecord(ms[id])
              THEN Step(p, Finish(pr, "ok", 0, NoError))
              ELSE IF ms[id].credential.kind = "null"
              THEN Step(p, Finish(pr, "error", 0,
                          AuthenticationError("Credential not initialized", NoDetails)))
              ELSE Step(p, [Log(pr, << "authenticate" >>)
                            EXCEPT !.pc = "ra_waitAuth", !.m = id])
           /\ mgr' = Collect(ms, id, proc')
    /\ UNCHANGED << now, env, isAuthenticated, authDir, authFile, cacheFile, issued >>

\* A clearCache that also drops the readiness flag.
ClearCacheAndReadiness(p) ==
    /\ Idle(p)
    /\ LET id == SingletonId
           ms == getAuthManager(loadConfigFromEnv)
       IN  /\ authManager' = id
           /\ Step(p, Finish(Begin(p, "clearCache"), "ok", 0, NoError))
           /\ mgr' = Collect([ms EXCEPT ![id] = clearCache(ms[id])], id, proc')
    /\ isAuthenticated' = FALSE
    /\ UNCHANGED << now, env, authDir, authFile, cacheFile, issued >>

\* getAuthManager().clearCache()
ClearCache(p) ==
    /\ Idle(p)
    /\ LET id == SingletonId
           ms == getAuthManager(loadConfigFromEnv)
       IN  /\ authManager' = id
           /\ Step(p, Finish(Begin(p, "clearCache"), "ok", 0, NoError))
           /\ mgr' = Collect([ms EXCEPT ![id] = clearCache(ms[id])], id, proc')
    /\ UNCHANGED << now, env, isAuthenticated, authDir, authFile, cacheFile, issued >>

\* A status query that initializes the manager it reports on.
GetAuthStatusInitializing(p) ==
    /\ Idle(p)
    /\ LET id == SingletonId
           ms == getAuthManager(loadConfigFromEnv)
       IN  /\ authManager' = id
           /\ Step(p, [Finish(Begin(p, "getAuthStatus"), "ok", 0, NoError)
                      EXCEPT !.res = [status |-> "ok", token |-> 0, error |-> NoError,
                                      authStatus |-> getAuthStatus(initialize(ms[id]))]])
           /\ mgr' = Collect([ms EXCEPT ![id] = initialize(ms[id])], id, proc')
    /\ UNCHANGED << now, env, isAuthenticated, authDir, authFile, cacheFile, issued >>

\* getAuthManager().getAuthStatus(), as the authConfig tool calls it.
GetAuthStatus(p) ==
    /\ Idle(p)
    /\ LET id == SingletonId
           ms == getAuthManager(loadConfigFromEnv)
       IN  /\ authManager' = id
           /\ Step(p, [Finish(Begin(p, "getAuthStatus"), "ok", 0, NoError)
                      EXCEPT !.res = [status |-> "ok", token |-> 0, error |-> NoError,
                                      authStatus |-> getAuthStatus(ms[id])]])
           /\ mgr' = Collect(ms, id, proc')
    /\ UNCHANGED << now, env, isAuthenticated, authDir, authFile, cacheFile, issued >>

\* A reset that discards the manager and leaves the readiness flag alone.
ResetAuthManagerKeepingFlag(p) ==
    /\ Idle(p)
    /\ authManager' = 0
    /\ Step(p, Finish(Begin(p, "reset"), "ok", 0, NoError))
    /\ mgr' = Collect(mgr, 0, proc')
    /\ UNCHANGED << now, env, isAuthenticated, authDir, authFile, cacheFile, issued >>

\* resetAuthManager()
ResetAuthManager(p) ==
    /\ Idle(p)
    /\ authManager' = 0
    /\ isAuthenticated' = FALSE
    /\ Step(p, Finish(Begin(p, "reset"), "ok", 0, NoError))
    /\ mgr' = Collect(mgr, 0, proc')
    /\ UNCHANGED << now, env, authDir, authFile, cacheFile, issued >>

(***************************************************************************)
(* logout()                                                                *)
(***************************************************************************)
\* The call of the file system that fails with an unexpected I/O error.
LogoutFaults == {"none", "mkdir", "unlinkRecord", "unlinkCache"}

\* A logout that unlinks both files without looking whether they exist.
FaultAppliesUnchecked(fault) ==
    CASE fault = "none" -> TRUE
      [] fault = "mkdir" -> ~authDir
      [] fault = "unlinkRecord" -> TRUE
      [] fault = "unlinkCache" -> TRUE

\* The fault can happen: the call it names is made.
FaultApplies(fault) ==
    CASE fault = "none" -> TRUE
      [] fault = "mkdir" -> ~authDir
      [] fault = "unlinkRecord" -> authFile.exists
      [] fault = "unlinkCache" -> cacheFile

LogoutError(fault) == AuthenticationError("Failed to logout", [error |-> fault])

\* A logout that leaves out resetAuthManager().
LogoutWithoutReset(p, fault) ==
    /\ Idle(p)
    /\ fault = "none"
    /\ authDir' = TRUE
    /\ authFile' = NoFile
    /\ cacheFile' = FALSE
    /\ Step(p, Finish(Begin(p, "logout"), "ok", 0, NoError))
    /\ mgr' = Collect(
           IF authManager # 0
           THEN [mgr EXCEPT ![authManager] = clearCache(@)]
           ELSE mgr,
           authManager, proc')
    /\ UNCHANGED << now, env, issued, authManager, isAuthenticated >>

\* The steps of logout's try block, which the first throw ends.
Logout(p, fault) ==
    /\ Idle(p)
    /\ FaultApplies(fault)
    /\ LET pr == Begin(p, "logout")
       IN  CASE fault = "mkdir" ->
                  /\ Step(p, Finish(pr, "error", 0, LogoutError(fault)))
                  /\ UNCHANGED << authManager, isAuthenticated, mgr, authDir,
                                  authFile, cacheFile >>
             [] fault = "unlinkRecord" ->
                  /\ authDir' = TRUE
                  /\ Step(p, Finish(pr, "error", 0, LogoutError(fault)))
                  /\ UNCHANGED << authManager, isAuthenticated, mgr, authFile, cacheFile >>
             [] fault = "unlinkCache" ->
                  /\ authDir' = TRUE
                  /\ authFile' = NoFile
                  /\ Step(p, Finish(pr, "error", 0, LogoutError(fault)))
                  /\ UNCHANGED << authManager, isAuthenticated, mgr, cacheFile >>
             [] fault = "none" ->
                  /\ authDir' = TRUE
                  /\ authFile' = NoFile
                  /\ cacheFile' = FALSE
                  /\ authManager' = 0
                  /\ isAuthenticated' = FALSE
                  /\ Step(p, Finish(pr, "ok", 0, NoError))
                  /\ mgr' = Collect(
                         IF authManager # 0
                         THEN [mgr EXCEPT ![authManager] = clearCache(@)]
                         ELSE mgr,
                         0, proc')
    /\ UNCHANGED << now, env, issued >>

(***************************************************************************)
(* Time, and the specification.                                            *)
(***************************************************************************)
Tick ==
    /\ now < MaxTime
    /\ now' = now + 1
    /\ last' = NoReturn
    /\ UNCHANGED << env, authManager, isAuthenticated, mgr, authDir, authFile,
                    cacheFile, issued, proc, cachedConversationId >>

\* The steps of the invocation in slot p.
Ops(p) ==
    \/ StartEnsure(p)
    \/ \E valid \in BOOLEAN : StartTool(p, valid)
    \/ RaAfterInit(p)
    \/ \E lifetime \in Lifetimes : GetTokenReturns(p, lifetime)
    \/ \E outcome \in GetTokenFailures : GetTokenFails(p, outcome)
    \/ \E outcome \in GetTokenFailures : RetryFails(p, outcome)
    \/ RaAfterToken(p)
    \/ \E record \in Accounts, fault \in SaveFaults :
          AuthenticateReturns(p, record, fault)
    \/ AuthenticateFails(p)
    \/ RaAfterRecord(p)
    \/ ToolAfterAuth(p)
    \/ ToolAfterToken(p)
    \/ \E ok \in BOOLEAN : GraphResponds(p, ok)
    \/ \E name \in ToolNames : CallUnknownTool(p, name)
    \/ \E config \in ExplicitConfigs : GetAuthManager(p, config)
    \/ \E scopes \in ScopeLists : StartToken(p, scopes)
    \/ Initialize(p)
    \/ EnsureAuthRecord(p)
    \/ ClearCache(p)
    \/ GetAuthStatus(p)
    \/ ResetAuthManager(p)
    \/ \E fault \in LogoutFaults : Logout(p, fault)

\* Sequential dispatch: every call runs to completion before the next one
\* starts, so one slot is in use.
Next == Tick \/ Ops(1)

Spec == Init /\ [][Next]_vars

(***************************************************************************)
(* Overlapping calls.  The functions are async: while one invocation is    *)
(* suspended at an await, another can start and run.  Both slots are in    *)
(* use; the environment is the default one, the clock stands still, and    *)
(* the file system does not fail.                                          *)
(***************************************************************************)
ConcInit == Init /\ env.AUTH_METHOD = ""

ConcOps(p) ==
    \/ StartEnsure(p)
    \/ Initialize(p)
    \/ StartToken(p, REQUIRED_SCOPES)
    \/ RaAfterInit(p)
    \/ \E lifetime \in Lifetimes : GetTokenReturns(p, lifetime)
    \/ \E outcome \in GetTokenFailures : GetTokenFails(p, outcome)
    \/ \E outcome \in GetTokenFailures : RetryFails(p, outcome)
    \/ RaAfterToken(p)
    \/ \E record \in Accounts : AuthenticateReturns(p, record, "none")
    \/ AuthenticateFails(p)
    \/ RaAfterRecord(p)
    \/ Logout(p, "none")

ConcNext == \E p \in Procs : ConcOps(p)

ConcSpec == ConcInit /\ [][ConcNext]_vars

(***************************************************************************)
(* tools/chat.ts: copilotChat(message, conversationId, timeZone), called   *)
(* directly, one call after the other.                                     *)
(***************************************************************************)
\* The conversationId arguments: none (undefined), or an id of the caller.
ChatArguments == {"", "conv-9"}

\* The ids POST /beta/copilot/conversations answers with.
ConversationIds == {"conv-1", "conv-2"}

\* copilotChat up to its await on getAccessToken(REQUIRED_SCOPES).
StartChat(p, conversationId) ==
    /\ Idle(p)
    /\ LET id == SingletonId
           ms == getAuthManager(loadConfigFromEnv)
       IN  /\ authManager' = id
           /\ Step(p, GatEntry([Begin(p, "chat") EXCEPT !.conversationId = conversationId],
                               id, ms[id], REQUIRED_SCOPES))
           /\ mgr' = Collect(ms, id, proc')
    /\ UNCHANGED << now, env, isAuthenticated, authDir, authFile, cacheFile, issued >>

\* A copilotChat that creates a conversation whenever it is given no id.
ChatAfterTokenAlwaysCreates(p) ==
    /\ proc[p].pc = "chat_afterToken"
    /\ LET pr == proc[p]
       IN  IF pr.conversationId # ""
           THEN Step(p, [Log(pr, << "provided", "send" >>)
                         EXCEPT !.pc = "chat_waitSend", !.active = pr.conversationId])
           ELSE Step(p, [Log(pr, << "create" >>) EXCEPT !.pc = "chat_waitCreate"])
    /\ UNCHANGED << now, env, authManager, isAuthenticated, mgr, authDir,
                    authFile, cacheFile, issued >>

\* copilotChat after the token: the conversation to use, up to the await on
\* createConversation or on sendChatMessage.
ChatAfterToken(p) ==
    /\ proc[p].pc = "chat_afterToken"
    /\ LET pr == proc[p]
       IN  IF pr.conversationId # ""
           THEN Step(p, [Log(pr, << "provided", "send" >>)
                         EXCEPT !.pc = "chat_waitSend", !.active = pr.conversationId])
           ELSE IF cachedConversationId # ""
           THEN Step(p, [Log(pr, << "reuse", "send" >>)
                         EXCEPT !.pc = "chat_waitSend", !.active = cachedConversationId])
           ELSE Step(p, [Log(pr, << "create" >>) EXCEPT !.pc = "chat_waitCreate"])
    /\ UNCHANGED << now, env, authManager, isAuthenticated, mgr, authDir,
                    authFile, cacheFile, issued >>

\* createConversation returned: the id is cached and the message is sent.
CreateResponds(p, id) ==
    /\ proc[p].pc = "chat_waitCreate"
    /\ ChatStep(p, [Log(proc[p], << "send" >>)
                    EXCEPT !.pc = "chat_waitSend", !.active = id], id)
    /\ UNCHANGED << now, env, authManager, isAuthenticated, mgr, authDir,
                    authFile, cacheFile, issued >>

\* createConversation threw: copilotChat throws.
CreateFails(p) ==
    /\ proc[p].pc = "chat_waitCreate"
    /\ Step(p, Finish(proc[p], "error", 0, APIError))
    /\ UNCHANGED << now, env, authManager, isAuthenticated, mgr, authDir,
                    authFile, cacheFile, issued >>

\* A copilotChat that forgets the cached conversation when the send threw.
SendRespondsForgetting(p, ok) ==
    /\ proc[p].pc = "chat_waitSend"
    /\ ChatStep(p, IF ok
                   THEN [Finish(proc[p], "ok", 0, NoError)
                         EXCEPT !.res = [status |-> "ok", token |-> 0, error |-> NoError,
                                         conversation |-> proc[p].active]]
                   ELSE Finish(proc[p], "error", 0, APIError),
                IF ok THEN cachedConversationId ELSE NoConversation)
    /\ UNCHANGED << now, env, authManager, isAuthenticated, mgr, authDir,
                    authFile, cacheFile, issued >>

\* sendChatMessage returned or threw: copilotChat returns the response of
\* the conversation the message went to, or throws.
SendResponds(p, ok) ==
    /\ proc[p].pc = "chat_waitSend"
    /\ Step(p, IF ok
               THEN [Finish(proc[p], "ok", 0, NoError)
                     EXCEPT !.res = [status |-> "ok", token |-> 0, error |-> NoError,
                                     conversation |-> proc[p].active]]
               ELSE Finish(proc[p], "error", 0, APIError))
    /\ UNCHANGED << now, env, authManager, isAuthenticated, mgr, authDir,
                    authFile, cacheFile, issued >>

\* clearConversationCache()
ClearConversationCache(p) ==
    /\ Idle(p)
    /\ ChatStep(p, Finish(Begin(p, "clearConversationCache"), "ok", 0, NoError),
                NoConversation)
    /\ UNCHANGED << now, env, authManager, isAuthenticated, mgr, authDir,
                    authFile, cacheFile, issued >>

ChatOps(p) ==
    \/ Initialize(p)
    \/ \E conversationId \in ChatArguments : StartChat(p, conversationId)
    \/ \E lifetime \in Lifetimes : GetTokenReturns(p, lifetime)
    \/ \E outcome \in GetTokenFailures : GetTokenFails(p, outcome)
    \/ \E outcome \in GetTokenFailures : RetryFails(p, outcome)
    \/ ChatAfterToken(p)
    \/ \E id \in ConversationIds : CreateResponds(p, id)
    \/ CreateFails(p)
    \/ \E ok \in BOOLEAN : SendResponds(p, ok)
    \/ ClearConversationCache(p)

ChatNext == ChatOps(1)

ChatSpec == Init /\ [][ChatNext]_vars

(***************************************************************************)
(* tools/retrieval.ts: copilotRetrieval(queryString), called directly.     *)
(***************************************************************************)
\* The hits the Graph API answers with; a relevanceScore is in tenths.
RetrievalHits ==
    { [webUrl |-> "https://contoso.sharepoint.com/a", extracts |-> << >>],
      [webUrl |-> "https://contoso.sharepoint.com/b", extracts |-> << 3 >>],
      [webUrl |-> "https://contoso-my.sharepoint.com/c", extracts |-> << 1, 3 >>] }

\* The retrievalHits of one response.
HitLists == UNION {[1..n -> RetrievalHits] : n \in 0..MaxHits}

\* Math.max(...scores) of a list that is not empty.
RECURSIVE MathMax(_)
MathMax(scores) ==
    IF Len(scores) = 1 THEN scores[1]
    ELSE LET rest == MathMax(Tail(scores))
         IN  IF scores[1] > rest THEN scores[1] ELSE rest

maxScore(hit) == IF Len(hit.extracts) > 0 THEN MathMax(hit.extracts) ELSE 0

\* A comparator that puts the lowest score first.
compareAscending(a, b) == maxScore(a) - maxScore(b)

\* The comparator of combinedHits.sort: negative when a goes before b.
compare(a, b) == maxScore(b) - maxScore(a)

\* Array.prototype.sort with that comparator; the sort is stable.
RECURSIVE InsertHit(_, _)
InsertHit(sorted, hit) ==
    IF sorted = << >> THEN << hit >>
    ELSE IF compare(Head(sorted), hit) <= 0
         THEN << Head(sorted) >> \o InsertHit(Tail(sorted), hit)
         ELSE << hit >> \o sorted

RECURSIVE SortHits(_)
SortHits(hits) ==
    IF hits = << >> THEN << >>
    ELSE InsertHit(SortHits(SubSeq(hits, 1, Len(hits) - 1)), hits[Len(hits)])

\* copilotRetrieval up to its await on getAccessToken(REQUIRED_SCOPES).
StartRetrieval(p) ==
    /\ Idle(p)
    /\ LET id == SingletonId
           ms == getAuthManager(loadConfigFromEnv)
       IN  /\ authManager' = id
           /\ Step(p, GatEntry(Begin(p, "retrieval"), id, ms[id], REQUIRED_SCOPES))
           /\ mgr' = Collect(ms, id, proc')
    /\ UNCHANGED << now, env, isAuthenticated, authDir, authFile, cacheFile, issued >>

\* The two callGraphApi requests are made; Promise.all is awaited.
RetrievalAfterToken(p) ==
    /\ proc[p].pc = "retrieval_afterToken"
    /\ Step(p, [Log(proc[p], << "sharePoint", "oneDriveBusiness" >>)
                EXCEPT !.pc = "retrieval_waitApi"])
    /\ UNCHANGED << now, env, authManager, isAuthenticated, mgr, authDir,
                    authFile, cacheFile, issued >>

\* Both requests were answered: Promise.all is fulfilled with the responses.
RetrievalResponds(p, sharePointHits, oneDriveHits) ==
    /\ proc[p].pc = "retrieval_waitApi"
    /\ Step(p, [proc[p] EXCEPT !.pc = "retrieval_merge",
                               !.sharePoint = sharePointHits,
                               !.oneDrive = oneDriveHits])
    /\ UNCHANGED << now, env, authManager, isAuthenticated, mgr, authDir,
                    authFile, cacheFile, issued >>

\* One of the requests failed: Promise.all rejects, copilotRetrieval throws.
RetrievalFails(p) ==
    /\ proc[p].pc = "retrieval_waitApi"
    /\ Step(p, Finish(proc[p], "error", 0, APIError))
    /\ UNCHANGED << now, env, authManager, isAuthenticated, mgr, authDir,
                    authFile, cacheFile, issued >>

\* After the await: the hits are combined, sorted and returned.
RetrievalMerge(p) ==
    /\ proc[p].pc = "retrieval_merge"
    /\ LET combinedHits == proc[p].sharePoint \o proc[p].oneDrive
       IN  Step(p, [Finish(proc[p], "ok", 0, NoError)
                    EXCEPT !.res = [status |-> "ok", token |-> 0, error |-> NoError,
                                    retrievalHits |-> SortHits(combinedHits)]])
    /\ UNCHANGED << now, env, authManager, isAuthenticated, mgr, authDir,
                    authFile, cacheFile, issued >>

RetrievalOps(p) ==
    \/ Initialize(p)
    \/ StartRetrieval(p)
    \/ \E lifetime \in Lifetimes : GetTokenReturns(p, lifetime)
    \/ \E outcome \in GetTokenFailures : GetTokenFails(p, outcome)
    \/ \E outcome \in GetTokenFailures : RetryFails(p, outcome)
    \/ RetrievalAfterToken(p)
    \/ \E sharePointHits \in HitLists, oneDriveHits \in HitLists :
          RetrievalResponds(p, sharePointHits, oneDriveHits)
    \/ RetrievalFails(p)
    \/ RetrievalMerge(p)

RetrievalNext == RetrievalOps(1)

RetrievalSpec == Init /\ [][RetrievalNext]_vars

(***************************************************************************)
(* utils/validation.ts: requireString and optionalString.  A JavaScript    *)
(* value is a record of its kind and, for a string, its characters.        *)
(***************************************************************************)
Undefined == [kind |-> "undefined", chars |-> ""]
Null == [kind |-> "null", chars |-> ""]
String(chars) == [kind |-> "string", chars |-> chars]

\* The values a tool argument can have.
JsValues ==
    { Undefined, Null,
      [kind |-> "number", chars |-> "42"], [kind |-> "boolean", chars |-> "true"],
      [kind |-> "object", chars |-> ""], [kind |-> "array", chars |-> ""] }
    \cup { String(chars) :
              chars \in {"", " ", "   ", " \t\n", "a", " a", "a ", " a b ", "\ta\n", "true"} }

ParamNames == {"query", "conversationId"}

\* typeof value
TypeOf(value) ==
    IF value.kind \in {"null", "array"} THEN "object" ELSE value.kind

\* The characters String.prototype.trim removes, as far as the values have them.
WhiteSpace == {" ", "\t", "\n", "\r"}

RECURSIVE TrimStart(_)
TrimStart(chars) ==
    IF Len(chars) > 0 /\ SubSeq(chars, 1, 1) \in WhiteSpace
    THEN TrimStart(SubSeq(chars, 2, Len(chars)))
    ELSE chars

RECURSIVE TrimEnd(_)
TrimEnd(chars) ==
    IF Len(chars) > 0 /\ SubSeq(chars, Len(chars), Len(chars)) \in WhiteSpace
    THEN TrimEnd(SubSeq(chars, 1, Len(chars) - 1))
    ELSE chars

\* A trim that removes nothing.
TrimNothing(chars) == chars

\* value.trim()
Trim(chars) == TrimEnd(TrimStart(chars))

\* What a call returns: the value, or the error it throws.
Returned(value) == [threw |-> FALSE, value |-> value, error |-> NoError]
Thrown(error) == [threw |-> TRUE, value |-> Undefined, error |-> error]

requireString(value, paramName) ==
    IF TypeOf(value) # "string"
    THEN Thrown(ValidationError(
             "Parameter '" \o paramName \o "' must be a string",
             [paramName |-> paramName, receivedType |-> TypeOf(value)]))
    ELSE IF Trim(value.chars) = ""
    THEN Thrown(ValidationError(
             "Parameter '" \o paramName \o "' cannot be empty",
             [paramName |-> paramName]))
    ELSE Returned(value)

optionalString(value, paramName) ==
    IF value = Undefined \/ value = Null
    THEN Returned(Undefined)
    ELSE requireString(value, paramName)

\* The outcome of each call, computed once.
RequireStringTable ==
    [value \in JsValues, paramName \in ParamNames |-> requireString(value, paramName)]
OptionalStringTable ==
    [value \in JsValues, paramName \in ParamNames |-> optionalString(value, paramName)]

\* The end of a call of the validation function op, with outcome out.
Validated(p, op, out) ==
    IF out.threw
    THEN Finish(Begin(p, op), "error", 0, out.error)
    ELSE [Finish(Begin(p, op), "ok", 0, NoError)
          EXCEPT !.res = [status |-> "ok", token |-> 0, error |-> NoError,
                          value |-> out.value]]

RequireString(p, value, paramName) ==
    /\ Idle(p)
    /\ Step(p, Validated(p, "requireString", RequireStringTable[value, paramName]))
    /\ UNCHANGED << now, env, authManager, isAuthenticated, mgr, authDir,
                    authFile, cacheFile, issued >>

OptionalString(p, value, paramName) ==
    /\ Idle(p)
    /\ Step(p, Validated(p, "optionalString", OptionalStringTable[value, paramName]))
    /\ UNCHANGED << now, env, authManager, isAuthenticated, mgr, authDir,
                    authFile, cacheFile, issued >>

ValidationNext ==
    \/ \E value \in JsValues, paramName \in ParamNames :
          RequireString(1, value, paramName)
    \/ \E value \in JsValues, paramName \in ParamNames :
          OptionalString(1, value, paramName)

ValidationSpec == Init /\ [][ValidationNext]_vars

(***************************************************************************)
(* Properties.                                                             *)
(***************************************************************************)
\* The manager a direct call reaches is there and has its credential.
SingletonInitialized ==
    /\ authManager # 0
    /\ mgr[authManager].credential.kind # "null"

HasEntry(M, scopes) == ScopeKeys[scopes] \in DOMAIN M.tokenCache
EntryOf(M, scopes) == M.tokenCache[ScopeKeys[scopes]]

\* At the time of the lookup the entry has more than five minutes left.
InsideWindow(M, scopes) ==
    /\ HasEntry(M, scopes)
    /\ now + 5 < EntryOf(M, scopes).expiresAt

\* The step issued a request to the credential provider.
ProviderInvoked(p) == proc'[p].pc = "gat_wait1" /\ proc'[p].calls = 1

\* C1: a getAccessToken call on an initialized manager at time T returns the
\* cached token without a provider request if and only if the key has an
\* entry with T + 5 minutes < expiry; with an entry that expires at T + 5
\* minutes or earlier, or with none, it requests a token from the provider.
\* Stated for the three places getAccessToken is called from: a direct call,
\* requireAuthentication and the tool function.
C1_CacheFreshness ==
    [][\A p \in Procs :
        /\ \A scopes \in ScopeLists :
              (SingletonInitialized /\ StartToken(p, scopes)) =>
                 IF InsideWindow(mgr[authManager], scopes)
                 THEN /\ last'.op = "token"
                      /\ last'.res.status = "ok"
                      /\ last'.res.token = EntryOf(mgr[authManager], scopes).token
                      /\ issued' = issued
                      /\ proc'[p].pc = "idle"
                 ELSE ProviderInvoked(p)
        /\ RaAfterInit(p) =>
              IF InsideWindow(mgr[proc[p].m], REQUIRED_SCOPES)
              THEN proc'[p].pc = "ra_afterToken" /\ proc'[p].calls = 0
              ELSE ProviderInvoked(p)
        /\ (SingletonInitialized /\ proc[p].valid /\ ToolAfterAuth(p)) =>
              IF InsideWindow(mgr[authManager], REQUIRED_SCOPES)
              THEN /\ proc'[p].pc = "tool_afterToken"
                   /\ proc'[p].token = EntryOf(mgr[authManager], REQUIRED_SCOPES).token
                   /\ proc'[p].calls = 0
              ELSE ProviderInvoked(p)
      ]_vars

\* A direct call has just returned a token from the cache, one minute after
\* the provider issued it.
C1_Witness ==
    /\ last.op = "token"
    /\ last.res.status = "ok"
    /\ SingletonInitialized
    /\ HasEntry(mgr[authManager], REQUIRED_SCOPES)
    /\ EntryOf(mgr[authManager], REQUIRED_SCOPES).token = last.res.token
    /\ EntryOf(mgr[authManager], REQUIRED_SCOPES).expiresAt = now + 6

CaughtError(outcome) == IF outcome = NoError THEN NoTokenError ELSE outcome
CaughtRetryError(outcome) ==
    IF outcome = NoError THEN NoTokenErrorDeviceCode ELSE outcome

\* C3: when a getAccessToken call on an InteractiveBrowser credential fails
\* with an error classified as a headless-environment error, exactly one
\* DeviceCode retry of the same scopes is attempted; if the retry succeeds
\* its token is cached and returned; if it fails an AuthenticationError is
\* thrown that carries both the original and the fallback error messages,
\* and the call makes no third provider request.
C3_FallbackTermination ==
    [][\A p \in Procs :
        /\ \A outcome \in GetTokenFailures :
              (/\ proc[p].pc = "gat_wait1"
               /\ mgr[proc[p].m].credential.kind = "InteractiveBrowser"
               /\ ShouldFallback[CaughtError(outcome)]
               /\ GetTokenFails(p, outcome)) =>
                 /\ proc'[p].pc = "gat_wait2"
                 /\ proc'[p].calls = 2
                 /\ proc'[p].scopes = proc[p].scopes
                 /\ proc'[p].origErr = CaughtError(outcome)
                 /\ mgr'[proc[p].m].credential.kind = "DeviceCode"
        /\ \A lifetime \in Lifetimes :
              (proc[p].pc = "gat_wait2" /\ GetTokenReturns(p, lifetime)) =>
                 /\ proc[p].calls = 2
                 /\ proc'[p].pc \notin {"gat_wait1", "gat_wait2"}
                 /\ proc[p].m = authManager =>
                        EntryOf(mgr'[authManager], proc[p].scopes) =
                           [token |-> issued + 1, expiresAt |-> now + lifetime]
                 /\ proc[p].op = "token" =>
                        last'.res.status = "ok" /\ last'.res.token = issued + 1
        /\ \A outcome \in GetTokenFailures :
              RetryFails(p, outcome) =>
                 /\ proc[p].calls = 2
                 /\ proc'[p].pc \notin {"gat_wait1", "gat_wait2"}
                 /\ issued' = issued
                 /\ proc[p].op = "token" =>
                        /\ last'.res.status = "error"
                        /\ last'.calls = 2
                        /\ last'.res.error.name = "AuthenticationError"
                        /\ last'.res.error.details.originalError =
                               proc[p].origErr.message
                        /\ last'.res.error.details.fallbackError =
                               CaughtRetryError(outcome).message
                        /\ Includes(last'.res.error.message,
                                    CaughtRetryError(outcome).message)
      ]_vars

\* A direct call has failed after the browser attempt and the DeviceCode
\* retry both failed.
C3_Witness ==
    /\ last.op = "token"
    /\ last.res.status = "error"
    /\ last.calls = 2
    /\ "originalError" \in DOMAIN last.res.error.details
    /\ last.res.error.details.originalError # last.res.error.details.fallbackError

\* C4: the readiness flag is false at start; only requireAuthentication sets
\* it to true; and once true it stays true after every operation except
\* logout and resetAuthManager, the only operations that set it to false.
C4_ReadinessLifecycle ==
    /\ ~isAuthenticated
    /\ [][/\ (~isAuthenticated /\ isAuthenticated') =>
                \E p \in Procs : RaAfterToken(p) \/ RaAfterRecord(p)
          /\ (isAuthenticated /\ ~isAuthenticated') =>
                \E p \in Procs : Logout(p, "none") \/ ResetAuthManager(p)
         ]_vars

\* The flag is still true after a getAccessToken call that failed.
C4_Witness ==
    /\ isAuthenticated
    /\ last.op = "token"
    /\ last.res.status = "error"
    /\ last.pre.ready

\* The steps requireAuthentication has taken when it reaches each await.
StepsToInit == << "configCheck", "initialize" >>
StepsToToken == << "configCheck", "initialize", "token" >>
StepsToRecord == << "configCheck", "initialize", "token", "authenticate" >>

\* Where a requireAuthentication in flight stands, against what it has done.
RaInOrder(p) ==
    LET pr == proc[p]
        M == mgr[pr.m]
    IN  pr.inRA =>
          /\ ~isAuthenticated
          /\ M.credential.kind # "null"
          /\ CASE pr.pc \in {"ra_afterInit", "gat_wait1", "gat_wait2"} ->
                    pr.steps = StepsToInit
                [] pr.pc = "ra_afterToken" ->
                    pr.steps = StepsToToken /\ HasEntry(M, REQUIRED_SCOPES)
                [] pr.pc = "ra_waitAuth" ->
                    pr.steps = StepsToRecord /\ ~hasAuthRecord(M)
                [] pr.pc = "ra_afterRecord" ->
                    pr.steps = StepsToRecord /\ HasEntry(M, REQUIRED_SCOPES)
                [] OTHER -> FALSE

\* C5: with the readiness flag true requireAuthentication returns at once,
\* with no initialize, no cache lookup and no provider request; otherwise it
\* performs, in this order, the configuration check, initialize(), the token
\* acquisition for REQUIRED_SCOPES, the record acquisition (only when no
\* record is held), and only then sets the flag; when the configuration
\* check, initialize() or the token acquisition fails the flag stays false.
C5_StepOrder ==
    /\ [](\A p \in Procs : RaInOrder(p))
    /\ [](last.op = "ensure" =>
            IF last.res.status = "ok"
            THEN /\ isAuthenticated
                 /\ last.steps \in {<< "fast" >>, StepsToToken \o << "ready" >>,
                                    StepsToRecord \o << "ready" >>}
            ELSE /\ ~isAuthenticated
                 /\ last.steps \in {<< "configCheck" >>, StepsToInit})
    /\ [][\A p \in Procs :
            /\ (isAuthenticated /\ StartEnsure(p)) =>
                  /\ last'.res.status = "ok"
                  /\ last'.steps = << "fast" >>
                  /\ last'.calls = 0
                  /\ UNCHANGED << authManager, mgr, authDir, issued, isAuthenticated >>
            /\ (~isAuthenticated /\ StartEnsure(p)) =>
                  \/ proc'[p].pc = "ra_afterInit"
                       /\ mgr'[proc'[p].m].credential.kind # "null"
                  \/ last'.res.status = "error" /\ last'.steps = << "configCheck" >>
                  \/ /\ last'.res.status = "error" /\ last'.steps = StepsToInit
                     /\ mgr'[authManager'].credential.kind = "null"
            /\ RaAfterToken(p) =>
                  IF hasAuthRecord(mgr[proc[p].m])
                  THEN isAuthenticated' /\ proc'[p].pc # "ra_waitAuth"
                  ELSE ~isAuthenticated' /\ proc'[p].pc = "ra_waitAuth"
            /\ (~isAuthenticated /\ isAuthenticated') =>
                  \E q \in Procs :
                     \/ proc[q].pc = "ra_afterRecord"
                     \/ proc[q].pc = "ra_afterToken" /\ hasAuthRecord(mgr[proc[q].m])
         ]_vars

\* A direct call has returned after all four steps, the record acquisition
\* among them, and the flag is set.
C5_Witness ==
    /\ last.op = "ensure"
    /\ last.res.status = "ok"
    /\ last.steps = StepsToRecord \o << "ready" >>
    /\ ~last.pre.ready
    /\ isAuthenticated

\* C6: requireAuthentication on a manager that is not configured (tenant or
\* client id empty) fails with a ConfigurationError that reaches the caller
\* as a ConfigurationError, without initialize or a provider request, and
\* leaves the readiness flag false.
C6_ConfigurationErrorSurfaced ==
    (/\ last.op = "ensure"
     /\ ~last.pre.ready
     /\ authManager # 0
     /\ ~isConfigured(mgr[authManager])) =>
        /\ last.res.status = "error"
        /\ last.res.error.name = "ConfigurationError"
        /\ last.res.error.code = "CONFIGURATION_ERROR"
        /\ last.steps = << "configCheck" >>
        /\ last.calls = 0
        /\ mgr[authManager].credential.kind = "null"
        /\ ~isAuthenticated

\* No heap object holds a cached token.
NoCachedToken == \A id \in MgrIds : mgr[id].tokenCache = EmptyCache

\* C7: from readiness true, a populated token cache and a record file, when
\* logout() returns the in-memory cache is empty, the flag is false, the
\* record file is absent and the singleton is discarded; the next
\* requireAuthentication runs the full path: a fresh manager is constructed,
\* initialize is called and the provider is asked for a token.
C7_LogoutResetsReadiness ==
    [][\A p \in Procs :
        /\ (/\ isAuthenticated
            /\ authManager # 0
            /\ mgr[authManager].tokenCache # EmptyCache
            /\ authFile.exists
            /\ \E fault \in LogoutFaults : Logout(p, fault)
            /\ last'.res.status = "ok") =>
               /\ NoCachedToken'
               /\ ~isAuthenticated'
               /\ ~authFile'.exists
               /\ authManager' = 0
        /\ (authManager = 0 /\ ~isAuthenticated /\ StartEnsure(p)) =>
               /\ authManager' # 0
               /\ proc'[p].pc = "ra_afterInit"
               /\ proc'[p].m = authManager'
               /\ proc'[p].steps = StepsToInit
               /\ mgr'[authManager'].credential.kind # "null"
               /\ mgr'[authManager'].tokenCache = EmptyCache
        /\ (RaAfterInit(p) /\ mgr[proc[p].m].tokenCache = EmptyCache) =>
               ProviderInvoked(p)
      ]_vars

\* logout() has returned from a state with the flag set, tokens cached and
\* a record file, and has left none of them.
C7_Witness ==
    /\ last.op = "logout"
    /\ last.res.status = "ok"
    /\ last.pre.ready /\ last.pre.manager /\ last.pre.cached /\ last.pre.file
    /\ authManager = 0
    /\ ~isAuthenticated
    /\ ~authFile.exists

\* C8: logout() with no singleton, no record file, no persisted token cache
\* file and nothing cached completes without throwing and leaves the
\* readiness flag false.  It makes no unlink call, so the one call of the
\* file system that can fail is the creation of the directory.
C8_LogoutWithoutAuthentication ==
    [][\A p \in Procs, fault \in LogoutFaults \ {"mkdir"} :
        (/\ authManager = 0
         /\ ~isAuthenticated
         /\ ~authFile.exists
         /\ ~cacheFile
         /\ NoCachedToken
         /\ Logout(p, fault)) =>
            /\ last'.op = "logout"
            /\ last'.res.status = "ok"
            /\ ~isAuthenticated'
            /\ authManager' = 0
            /\ ~authFile'.exists
            /\ ~cacheFile'
      ]_vars

\* logout() has returned from a state with nothing to clean up.
C8_Witness ==
    /\ last.op = "logout"
    /\ last.res.status = "ok"
    /\ ~last.pre.ready /\ ~last.pre.manager /\ ~last.pre.cached
    /\ ~last.pre.file /\ ~last.pre.cacheFile
    /\ ~isAuthenticated

\* C9: when an unexpected I/O error occurs while logout() deletes the record
\* file or the persisted token cache file, logout still performs every
\* remaining cleanup step it can (the other deletion, clearing the in-memory
\* cache, discarding the manager, setting the flag to false) before it
\* raises the failure.
C9_LogoutBestEffort ==
    (/\ last.op = "logout"
     /\ last.res.status = "error"
     /\ last.res.error.details.error \in {"unlinkRecord", "unlinkCache"}) =>
        /\ NoCachedToken
        /\ authManager = 0
        /\ ~isAuthenticated
        /\ last.res.error.details.error = "unlinkRecord" => ~cacheFile
        /\ last.res.error.details.error = "unlinkCache" => ~authFile.exists

\* Invocation p of getAccessToken awaits the provider's answer.
AwaitsProvider(p) == proc[p].pc \in {"gat_wait1", "gat_wait2"}

\* C10: concurrent getAccessToken calls with an empty cache and the same
\* scope key make exactly one provider round trip and all return the same
\* token: while one call awaits the provider for a key, no other call on the
\* same manager awaits the provider for that key, and no token for the key
\* enters the cache from elsewhere that the waiting call would then replace
\* by a different one.
C10_SingleFlight ==
    \A p \in Procs :
       AwaitsProvider(p) =>
          /\ \A q \in Procs \ {p} :
                ~(/\ AwaitsProvider(q)
                  /\ proc[q].m = proc[p].m
                  /\ proc[q].scopes = proc[p].scopes)
          /\ ~CacheHit(mgr[proc[p].m], proc[p].scopes, now)

\* The steps of a tool invocation whose requireAuthentication has returned.
StepsAuthenticated ==
    {<< "fast" >>, StepsToToken \o << "ready" >>, StepsToRecord \o << "ready" >>}

\* C11: in every invocation of a tool, a Graph API request is issued only
\* after requireAuthentication has returned in that invocation, and the
\* bearer token attached is the one getAccessToken returned in the same
\* invocation: just issued by the provider, or cached with more than five
\* minutes left at the lookup; when authentication or the token acquisition
\* fails no Graph API request is issued.
C11_NoToolWithoutCredential ==
    /\ [](\A p \in Procs :
            proc[p].pc = "tool_waitApi" =>
               /\ proc[p].op = "tool"
               /\ proc[p].token \in 1..issued
               /\ \E done \in StepsAuthenticated :
                     proc[p].steps = done \o << "graph" >>)
    /\ [](last.op = "tool" =>
            /\ last.res.status = "ok" =>
                  /\ \E done \in StepsAuthenticated :
                        last.steps = done \o << "graph" >>
                  /\ last.res.token \in 1..issued
            /\ (/\ last.res.status = "isError"
                /\ last.res.error.code = "AUTHENTICATION_ERROR") =>
                  \A i \in DOMAIN last.steps : last.steps[i] # "graph")
    /\ [][\A p \in Procs :
            /\ (ToolAfterAuth(p) /\ proc'[p].pc = "tool_afterToken") =>
                  /\ SingletonInitialized
                  /\ InsideWindow(mgr[authManager], REQUIRED_SCOPES)
                  /\ proc'[p].token = EntryOf(mgr[authManager], REQUIRED_SCOPES).token
            /\ \A lifetime \in Lifetimes :
                  (/\ proc[p].op = "tool"
                   /\ ~proc[p].inRA
                   /\ GetTokenReturns(p, lifetime)) =>
                      /\ proc'[p].pc = "tool_afterToken"
                      /\ proc'[p].token = issued + 1
            /\ ToolAfterToken(p) =>
                  /\ proc'[p].pc = "tool_waitApi"
                  /\ proc'[p].token = proc[p].token
            /\ (proc'[p].pc = "tool_waitApi" /\ proc[p].pc # "tool_waitApi") =>
                  ToolAfterToken(p)
         ]_vars

\* A tool has returned its result after a first-time authentication; the
\* request carried a token the provider issued.
C11_Witness ==
    /\ last.op = "tool"
    /\ last.res.status = "ok"
    /\ last.steps = StepsToRecord \o << "ready", "graph" >>
    /\ last.res.token \in 1..issued
    /\ last.calls = 0
    /\ isAuthenticated

\* The payload of a failed authentication, for the message of its cause.
AuthenticationFailurePayload(payload) ==
    /\ payload.code = "AUTHENTICATION_ERROR"
    /\ DOMAIN payload.details = {"error"}
    /\ payload.message =
          "Failed to authenticate: " \o payload.details.error
              \o ". Please check your Azure AD configuration."

\* C12: a tool invocation whose authentication fails does not throw out of
\* the call_tool handler: the handler returns a response with isError true
\* that holds the structured payload (message, code AUTHENTICATION_ERROR,
\* details), and the server accepts the next tool call.
C12_AuthFailureIsPayload ==
    /\ [](last.op = "tool" =>
            /\ last.res.status \in {"ok", "isError"}
            /\ ENABLED StartTool(1, TRUE))
    /\ [][\A p \in Procs :
            /\ (proc[p].op = "tool" /\ proc[p].inRA /\ proc'[p].pc = "idle") =>
                  /\ last'.op = "tool"
                  /\ last'.res.status = "isError"
                  /\ AuthenticationFailurePayload(last'.res.error)
            /\ \A valid \in BOOLEAN :
                  (StartTool(p, valid) /\ proc'[p].pc = "idle") =>
                     /\ last'.op = "tool"
                     /\ last'.res.status = "isError"
                     /\ AuthenticationFailurePayload(last'.res.error)
         ]_vars

\* A tool call has returned the payload of an authentication that failed
\* while the token was acquired.
C12_Witness ==
    /\ last.op = "tool"
    /\ last.res.status = "isError"
    /\ last.res.error.code = "AUTHENTICATION_ERROR"
    /\ last.steps = StepsToInit
    /\ ~isAuthenticated
    /\ proc[1].pc = "idle"

\* The record file exists and holds no serialized record.
MalformedRecordFile == authFile.exists /\ authFile.content = Garbage

\* Manager M has a credential that was constructed without a record, and
\* holds no record itself.
InitializedWithoutRecord(M) ==
    /\ M.credential.kind # "null"
    /\ M.credential.authenticationRecord = NoRecord
    /\ ~hasAuthRecord(M)

\* C13: when the record file exists but cannot be deserialized, initialize()
\* does not throw for it (it throws only what it throws on the configuration
\* with any file), the load yields no record, the credential is constructed
\* without a record, and requireAuthentication goes on as with no record:
\* after the token it asks the provider for a record and saves it over the
\* malformed file.
C13_MalformedRecordTolerated ==
    [][\A p \in Procs :
        /\ (MalformedRecordFile /\ Initialize(p)) =>
              /\ loadAuthRecord = NoRecord
              /\ IF /\ isConfigured(mgr'[authManager'])
                    /\ ConstructorAccepts[mgr'[authManager'].config.tenantId]
                 THEN /\ last'.res.status = "ok"
                      /\ InitializedWithoutRecord(mgr'[authManager'])
                 ELSE last'.res.error \in
                         {InitializeError(mgr'[authManager']), ConstructorError}
        /\ (MalformedRecordFile /\ StartEnsure(p) /\ proc'[p].pc # "idle") =>
              /\ proc'[p].pc = "ra_afterInit"
              /\ InitializedWithoutRecord(mgr'[proc'[p].m])
        /\ (MalformedRecordFile /\ RaAfterToken(p)) =>
              /\ proc'[p].pc = "ra_waitAuth"
              /\ ~isAuthenticated'
        /\ \A record \in Accounts :
              (MalformedRecordFile /\ AuthenticateReturns(p, record, "none")) =>
                 /\ authFile'.exists
                 /\ CanDeserialize(authFile'.content)
                 /\ deserializeAuthenticationRecord(authFile'.content) = record
                 /\ mgr'[proc[p].m].authRecord = record
      ]_vars

\* requireAuthentication has succeeded from a malformed record file: the
\* record step was taken and the file now holds the new record.
C13_Witness ==
    /\ last.op = "ensure"
    /\ last.res.status = "ok"
    /\ last.steps = StepsToRecord \o << "ready" >>
    /\ authFile.exists
    /\ authFile.mode \in ForeignModes
    /\ authFile.content = serializeAuthenticationRecord("alice@contoso.com")

\* C14: once the token acquisition of requireAuthentication has succeeded,
\* a failure of provider.authenticate or of the write of the record file
\* does not abort the call: requireAuthentication completes normally with
\* the readiness flag true and the token cached.
C14_RecordFailuresNonFatal ==
    /\ [](\A p \in Procs :
            /\ proc[p].pc = "ra_afterRecord" => proc[p].inRA
            /\ (proc[p].inRA /\ proc[p].pc \in {"ra_waitAuth", "ra_afterRecord"}) =>
                  HasEntry(mgr[proc[p].m], REQUIRED_SCOPES))
    /\ [][\A p \in Procs :
            /\ (proc[p].inRA /\ AuthenticateFails(p)) =>
                  /\ proc'[p].pc = "ra_afterRecord"
                  /\ UNCHANGED << mgr, authFile, isAuthenticated >>
            /\ \A record \in Accounts :
                  (proc[p].inRA /\ AuthenticateReturns(p, record, "write")) =>
                     /\ proc'[p].pc = "ra_afterRecord"
                     /\ UNCHANGED << mgr, authFile, isAuthenticated >>
            /\ (proc[p].inRA /\ proc[p].pc = "ra_waitAuth" /\ proc'[p] # proc[p]) =>
                  proc'[p].pc = "ra_afterRecord"
            /\ RaAfterRecord(p) =>
                  /\ isAuthenticated'
                  /\ HasEntry(mgr'[authManager'], REQUIRED_SCOPES)
                  /\ proc[p].op = "ensure" =>
                        last'.op = "ensure" /\ last'.res.status = "ok"
                  /\ proc[p].op = "tool" => proc'[p].pc = "tool_afterAuth"
         ]_vars

\* requireAuthentication has completed although no record was obtained or
\* saved: the flag is set and the token is cached, with no record held and
\* no record file.
C14_Witness ==
    /\ last.op = "ensure"
    /\ last.res.status = "ok"
    /\ last.steps = StepsToRecord \o << "ready" >>
    /\ isAuthenticated
    /\ authManager # 0
    /\ HasEntry(mgr[authManager], REQUIRED_SCOPES)
    /\ ~hasAuthRecord(mgr[authManager])
    /\ ~authFile.exists

\* The serializations of the records provider.authenticate can return.
RecordContents == {serializeAuthenticationRecord(record) : record \in Accounts}

\* C15: in every reachable state the record file is absent or holds only
\* the serialization of a record returned by provider.authenticate; no value
\* returned by getToken and no client secret is written to it, so its
\* content does not depend on the tokens issued.  A file the process found
\* at start stays as it was until the process writes or deletes it.
C15_NoSecretInRecord ==
    /\ [](authFile.exists => authFile.content \in RecordContents \cup {Garbage})
    /\ [][authFile' # authFile =>
            \/ /\ authFile' = NoFile
               /\ \E p \in Procs : Logout(p, "none") \/ Logout(p, "unlinkCache")
            \/ \E p \in Procs, record \in Accounts :
                  /\ AuthenticateReturns(p, record, "none")
                  /\ authFile'.exists
                  /\ authFile'.content = RecordPrefix \o record \o RecordSuffix
         ]_vars

\* The process has written the record file in a call that also obtained a
\* token, which is in the cache.
C15_Witness ==
    /\ last.op = "ensure"
    /\ last.res.status = "ok"
    /\ last.steps = StepsToRecord \o << "ready" >>
    /\ issued >= 1
    /\ authManager # 0
    /\ HasEntry(mgr[authManager], REQUIRED_SCOPES)
    /\ hasAuthRecord(mgr[authManager])
    /\ authFile.exists
    /\ authFile.content \in RecordContents

\* The invocation is inside requireAuthentication and has no token yet.
BeforeToken(p) ==
    /\ proc[p].inRA
    /\ proc[p].pc \in {"ra_afterInit", "gat_wait1", "gat_wait2"}

\* C16: within requireAuthentication the record file is written only after
\* the token acquisition of the same call has succeeded; a call that fails,
\* or that stays at the pending login, leaves the record file as it was and
\* the readiness flag false.
C16_NoPartialState ==
    /\ [](\A p \in Procs :
            BeforeToken(p) => ~isAuthenticated /\ proc[p].steps = StepsToInit)
    /\ [](last.op = "ensure" /\ last.res.status = "error" =>
               /\ ~isAuthenticated
               /\ last.steps \in {<< "configCheck" >>, StepsToInit})
    /\ [][\A p \in Procs :
            /\ (StartEnsure(p) \/ \E valid \in BOOLEAN : StartTool(p, valid)) =>
                  authFile' = authFile
            /\ (BeforeToken(p) /\ proc'[p] # proc[p]) =>
                  /\ authFile' = authFile
                  /\ ~isAuthenticated'
            /\ (authFile' # authFile /\ authFile'.exists) =>
                  \E q \in Procs :
                     /\ proc[q].pc = "ra_waitAuth"
                     /\ proc[q].inRA =>
                           /\ proc[q].steps = StepsToRecord
                           /\ HasEntry(mgr[proc[q].m], REQUIRED_SCOPES)
         ]_vars

\* requireAuthentication has failed after both provider attempts: there is
\* no record file and the flag is false.
C16_Witness ==
    /\ last.op = "ensure"
    /\ last.res.status = "error"
    /\ last.steps = StepsToInit
    /\ last.calls = 2
    /\ ~last.pre.file
    /\ ~authFile.exists
    /\ ~isAuthenticated

\* Both identifiers of the configuration have at least one character.
BothIdsPresent(config) == Len(config.tenantId) > 0 /\ Len(config.clientId) > 0

\* C17: isConfigured() is true if and only if the tenant id and the client
\* id of the manager's configuration are both non-empty, whatever the auth
\* method; with no environment overrides the defaults (the fixed client id,
\* tenant "common", method InteractiveBrowser) make it true.  Stated for
\* every manager on the heap and for the value getAuthStatus reports.
C17_IsConfigured ==
    /\ [](\A id \in MgrIds :
            mgr[id].alloc =>
               (isConfigured(mgr[id]) <=> BothIdsPresent(mgr[id].config)))
    /\ [](last.op = "getAuthStatus" =>
            /\ authManager # 0
            /\ last.res.authStatus.configured
                  <=> BothIdsPresent(mgr[authManager].config))
    /\ [][\A p \in Procs :
            (/\ authManager = 0
             /\ env = [AZURE_TENANT_ID |-> "", AZURE_CLIENT_ID |-> "", AUTH_METHOD |-> ""]
             /\ GetAuthStatus(p)) =>
                /\ mgr'[authManager'].config =
                      [tenantId |-> "common",
                       clientId |-> "f44ab954-9e38-4330-aa49-e93d73ab0ea6",
                       authMethod |-> "InteractiveBrowser"]
                /\ last'.res.authStatus.configured
         ]_vars

\* getAuthStatus has reported a manager that selects DeviceCode and has no
\* client id as not configured.
C17_Witness ==
    /\ last.op = "getAuthStatus"
    /\ ~last.res.authStatus.configured
    /\ authManager # 0
    /\ mgr[authManager].config.authMethod = "DeviceCode"
    /\ mgr[authManager].config.tenantId # ""
    /\ mgr[authManager].config.clientId = ""

\* The manager getAuthManager() hands to a caller: the singleton, or a
\* manager constructed from the environment when there is none.
ManagerInUse ==
    IF authManager # 0 THEN mgr[authManager] ELSE FreshManager(loadConfigFromEnv)

\* C18: getAuthStatus is read-only: it makes no provider request, triggers
\* no authentication, and leaves the credential, the token cache, the
\* record and the readiness flag unchanged; it reports initialized as
\* (credential is set) and cacheSize as the number of cache entries.
C18_GetAuthStatusReadOnly ==
    [][\A p \in Procs :
        GetAuthStatus(p) =>
           /\ mgr'[authManager'] = ManagerInUse
           /\ authManager # 0 => mgr' = mgr /\ authManager' = authManager
           /\ UNCHANGED << isAuthenticated, issued, authDir, authFile, cacheFile >>
           /\ proc'[p].pc = "idle"
           /\ last'.op = "getAuthStatus"
           /\ last'.calls = 0
           /\ last'.steps = << >>
           /\ last'.res.authStatus.initialized
                 <=> ManagerInUse.credential.kind \in {"InteractiveBrowser", "DeviceCode"}
           /\ last'.res.authStatus.cacheSize =
                 Cardinality({k \in DOMAIN ManagerInUse.tokenCache : TRUE})
      ]_vars

\* getAuthStatus has reported an initialized manager with one cached token,
\* with the readiness flag set before and after.
C18_Witness ==
    /\ last.op = "getAuthStatus"
    /\ last.res.authStatus.initialized
    /\ last.res.authStatus.cacheSize = 1
    /\ last.pre.ready
    /\ last.pre.cached
    /\ isAuthenticated
    /\ HasEntry(mgr[authManager], REQUIRED_SCOPES)

\* C19: initialize() on a manager whose tenant id or client id is absent
\* fails with ConfigurationError and leaves the manager's credential, record
\* and token cache exactly as they were before the call.
C19_InitializeUnconfigured ==
    [][\A p \in Procs :
        (Initialize(p) /\ ~BothIdsPresent(ManagerInUse.config)) =>
           /\ last'.op = "initialize"
           /\ last'.res.status = "error"
           /\ last'.res.error.name = "ConfigurationError"
           /\ last'.res.error.code = "CONFIGURATION_ERROR"
           /\ last'.res.error.details =
                 [hasTenantId |-> Len(ManagerInUse.config.tenantId) > 0,
                  hasClientId |-> Len(ManagerInUse.config.clientId) > 0]
           /\ mgr'[authManager'].credential = ManagerInUse.credential
           /\ mgr'[authManager'].authRecord = ManagerInUse.authRecord
           /\ mgr'[authManager'].tokenCache = ManagerInUse.tokenCache
           /\ UNCHANGED << isAuthenticated, issued, authDir, authFile, cacheFile >>
      ]_vars

\* initialize() has failed on a manager without a client id; the manager
\* has no credential.
C19_Witness ==
    /\ last.op = "initialize"
    /\ last.res.status = "error"
    /\ last.res.error.name = "ConfigurationError"
    /\ authManager # 0
    /\ mgr[authManager].config.clientId = ""
    /\ mgr[authManager].credential = NullCredential

\* C20: initialize() on a manager that is already initialized replaces the
\* credential and leaves every entry of the token cache unchanged, so a
\* fresh cached token is still returned by the next getAccessToken without
\* a provider request.
C20_ReinitializeKeepsCache ==
    [][\A p \in Procs :
        /\ (SingletonInitialized /\ Initialize(p)) =>
              /\ last'.op = "initialize"
              /\ last'.res.status = "ok"
              /\ authManager' = authManager
              /\ mgr'[authManager].tokenCache = mgr[authManager].tokenCache
              /\ mgr'[authManager].credential =
                    [kind |-> IF mgr[authManager].config.authMethod = "DeviceCode"
                              THEN "DeviceCode" ELSE "InteractiveBrowser",
                     authenticationRecord |-> loadAuthRecord]
              /\ InsideWindow(mgr[authManager], REQUIRED_SCOPES) =>
                    /\ SingletonInitialized'
                    /\ InsideWindow(mgr[authManager], REQUIRED_SCOPES)'
        /\ (/\ last.op = "initialize"
            /\ last.res.status = "ok"
            /\ InsideWindow(mgr[authManager], REQUIRED_SCOPES)
            /\ StartToken(p, REQUIRED_SCOPES)) =>
               /\ last'.res.status = "ok"
               /\ last'.res.token = EntryOf(mgr[authManager], REQUIRED_SCOPES).token
               /\ last'.calls = 0
               /\ issued' = issued
      ]_vars

\* initialize() has returned on a manager that had cached a token, and the
\* token is still in the cache and fresh.
C20_Witness ==
    /\ last.op = "initialize"
    /\ last.res.status = "ok"
    /\ last.pre.manager
    /\ last.pre.cached
    /\ SingletonInitialized
    /\ InsideWindow(mgr[authManager], REQUIRED_SCOPES)

(***************************************************************************)
(* C21: the errors of getAccessToken                                       *)
(***************************************************************************)
\* The details of the error carry the scopes as context.
ScopesAttached(error, scopes) ==
    /\ "scopes" \in DOMAIN error.details
    /\ error.details.scopes = scopes

\* C21: every getAccessToken(scopes) that fails throws an AuthenticationError
\* whose details carry the requested scopes, whichever path failed: manager
\* not initialized, provider failure without fallback, no token returned,
\* fallback failure.
C21_FailureCarriesScopes ==
    (last.op = "token" /\ last.res.status = "error") =>
        /\ last.res.error.name = "AuthenticationError"
        /\ ScopesAttached(last.res.error, REQUIRED_SCOPES)

\* The same for the failures after a provider request only.
C21_ProviderFailureCarriesScopes ==
    (last.op = "token" /\ last.res.status = "error" /\ last.calls > 0) =>
        /\ last.res.error.name = "AuthenticationError"
        /\ ScopesAttached(last.res.error, REQUIRED_SCOPES)

(***************************************************************************)
(* C22: the error translation boundary                                     *)
(***************************************************************************)
\* The error is one of the two taxonomy types of the authentication layer.
TaxonomyError(error) ==
    \/ error.name = "AuthenticationError" /\ error.code = "AUTHENTICATION_ERROR"
    \/ error.name = "ConfigurationError" /\ error.code = "CONFIGURATION_ERROR"

\* C22: every error that leaves initialize, getAccessToken,
\* requireAuthentication or logout is an AuthenticationError or a
\* ConfigurationError; an error raised by @azure/identity never reaches the
\* caller in its own type.
C22_ErrorTranslationBoundary ==
    (last.op \in {"initialize", "token", "ensure", "logout"}
        /\ last.res.status = "error") =>
        TaxonomyError(last.res.error)

\* The same for getAccessToken, requireAuthentication and logout only.
C22_TranslatedOutsideInitialize ==
    (last.op \in {"token", "ensure", "logout"} /\ last.res.status = "error") =>
        TaxonomyError(last.res.error)

(***************************************************************************)
(* C23: the permissions of the record file                                 *)
(***************************************************************************)
\* C23: after every successful saveAuthRecord the record file exists with
\* mode 0600 and its directory exists, whether the file was absent or was
\* there (with any mode) before the save.
C23_SavedOwnerOnly ==
    [][\A p \in Procs : \A record \in Accounts :
          AuthenticateReturns(p, record, "none") =>
             /\ authFile'.exists
             /\ authFile'.mode = MODE_0600
             /\ authDir'
      ]_vars

\* The same for the saves that create the file, or find it with mode 0600.
C23_CreatedOwnerOnly ==
    [][\A p \in Procs : \A record \in Accounts :
          (AuthenticateReturns(p, record, "none")
              /\ (authFile.exists => authFile.mode = MODE_0600)) =>
             /\ authFile'.exists
             /\ authFile'.mode = MODE_0600
             /\ authDir'
      ]_vars

(***************************************************************************)
(* C24: the conversation a chat message goes to                            *)
(***************************************************************************)
\* C24: in a sequence of copilotChat calls, a call with a conversationId
\* sends to that id and leaves the cached id alone; a call without one sends
\* to the cached id when there is one, and otherwise creates a conversation,
\* caches its id and sends to it.  A conversation is created only while no
\* id is cached, and a cached id stays until clearConversationCache(): so of
\* the calls without an id that follow each other at most one creates a
\* conversation successfully.
C24_ConversationReuse ==
    /\ [](\A p \in Procs :
            /\ proc[p].pc = "chat_waitCreate" =>
                  proc[p].conversationId = "" /\ cachedConversationId = NoConversation
            /\ proc[p].pc = "chat_waitSend" =>
                  proc[p].active =
                     IF proc[p].conversationId # "" THEN proc[p].conversationId
                     ELSE cachedConversationId)
    /\ []((last.op = "chat" /\ last.res.status = "ok") =>
            /\ last.res.conversation # ""
            /\ last.steps \in {<< "provided", "send" >>, << "reuse", "send" >>,
                               << "create", "send" >>}
            /\ last.steps # << "provided", "send" >> =>
                  last.res.conversation = cachedConversationId)
    /\ [][\A p \in Procs :
            /\ ChatAfterToken(p) =>
                  /\ UNCHANGED cachedConversationId
                  /\ proc'[p].pc = "chat_waitCreate" <=>
                        (proc[p].conversationId = ""
                            /\ cachedConversationId = NoConversation)
            /\ \A id \in ConversationIds :
                  CreateResponds(p, id) =>
                     /\ cachedConversationId' = id
                     /\ proc'[p].pc = "chat_waitSend"
                     /\ proc'[p].active = id
            /\ (cachedConversationId # NoConversation
                    /\ cachedConversationId' # cachedConversationId) =>
                  /\ cachedConversationId' = NoConversation
                  /\ last'.op = "clearConversationCache"
         ]_vars

\* A call without an id has returned the answer of the conversation an
\* earlier call had created and cached.
C24_Witness ==
    /\ last.op = "chat"
    /\ last.res.status = "ok"
    /\ last.steps = << "reuse", "send" >>
    /\ last.res.conversation = cachedConversationId
    /\ cachedConversationId \in ConversationIds

(***************************************************************************)
(* C25: the merged list of copilotRetrieval                                *)
(***************************************************************************)
\* The score a hit is ranked by: its highest relevanceScore, 0 without
\* extracts.
RankOf(hit) ==
    IF hit.extracts = << >> THEN 0
    ELSE CHOOSE s \in {hit.extracts[i] : i \in DOMAIN hit.extracts} :
            \A i \in DOMAIN hit.extracts : hit.extracts[i] <= s

\* How often the hit is in the list.
Occurrences(list, hit) == Cardinality({i \in DOMAIN list : list[i] = hit})

\* C25: copilotRetrieval returns a permutation of the SharePoint hits
\* followed by the OneDrive hits, ordered by non-increasing highest
\* relevance score, a hit without extracts counting as 0.
C25_RetrievalMerge ==
    [][\A p \in Procs :
          RetrievalMerge(p) =>
             LET combined == proc[p].sharePoint \o proc[p].oneDrive
                 result == last'.res.retrievalHits
             IN  /\ last'.res.status = "ok"
                 /\ Len(result) = Len(combined)
                 /\ \A hit \in RetrievalHits :
                       Occurrences(result, hit) = Occurrences(combined, hit)
                 /\ \A i \in 1..(Len(result) - 1) :
                       RankOf(result[i]) >= RankOf(result[i + 1])
      ]_vars

\* A call has returned hits of both sources in an order that is not the
\* order of the concatenation, the hit without extracts last.
C25_Witness ==
    /\ last.op = "retrieval"
    /\ last.res.status = "ok"
    /\ Len(last.res.retrievalHits) = 2 * MaxHits
    /\ last.res.retrievalHits[2 * MaxHits].extracts = << >>
    /\ last.res.retrievalHits[1].extracts = << 1, 3 >>
    /\ last.res.retrievalHits[2].extracts = << 3 >>

(***************************************************************************)
(* C26: requireString and optionalString                                   *)
(***************************************************************************)
\* The value is a string with a character that is not white space.
HasVisibleCharacter(value) ==
    /\ value.kind = "string"
    /\ \E i \in 1..Len(value.chars) : SubSeq(value.chars, i, i) \notin WhiteSpace

\* The call that ended has thrown a ValidationError.
ThrewValidationError(ret) ==
    /\ ret.res.status = "error"
    /\ ret.res.error.name = "ValidationError"
    /\ ret.res.error.code = "VALIDATION_ERROR"

\* C26: requireString(value, name) returns the value unchanged exactly when
\* it is a string with at least one character that is not white space, and
\* throws ValidationError for every other value (no string, undefined,
\* null, empty, white space only); optionalString returns undefined for
\* undefined and null and is requireString for every other value.
C26_RequireString ==
    [][\A value \in JsValues, paramName \in ParamNames :
          /\ RequireString(1, value, paramName) =>
                IF HasVisibleCharacter(value)
                THEN last'.res.status = "ok" /\ last'.res.value = value
                ELSE ThrewValidationError(last')
          /\ OptionalString(1, value, paramName) =>
                IF value \in {Undefined, Null}
                THEN last'.res.status = "ok" /\ last'.res.value = Undefined
                ELSE IF HasVisibleCharacter(value)
                THEN last'.res.status = "ok" /\ last'.res.value = value
                ELSE ThrewValidationError(last')
      ]_vars

\* requireString has rejected a string of white space, with the error that
\* names the parameter.
C26_Witness ==
    /\ last.op = "requireString"
    /\ ThrewValidationError(last)
    /\ last.res.error.message = "Parameter 'query' cannot be empty"

(***************************************************************************)
(* C27: call_tool with an unknown name                                     *)
(***************************************************************************)
\* C27: a call_tool request for a name that is not registered returns an
\* error payload (isError true, code VALIDATION_ERROR, a message with
\* 'Unknown tool'); it does not authenticate, asks the provider and the
\* Graph API for nothing, and leaves the readiness flag, the manager and
\* its token cache as they were.
C27_UnknownTool ==
    [][\A p \in Procs : \A name \in ToolNames :
          CallUnknownTool(p, name) =>
             /\ name \notin RegisteredTools
             /\ last'.op = "unknownTool"
             /\ last'.res.status = "isError"
             /\ last'.res.error.code = "VALIDATION_ERROR"
             /\ Includes(last'.res.error.message, "Unknown tool")
             /\ last'.steps = << >>
             /\ last'.calls = 0
             /\ proc'[p].pc = "idle"
             /\ UNCHANGED << isAuthenticated, authManager, mgr, issued,
                             authDir, authFile, cacheFile >>
      ]_vars

\* An unknown tool was called while the server was authenticated with a
\* token cached, and the payload came back.
C27_Witness ==
    /\ last.op = "unknownTool"
    /\ last.res.status = "isError"
    /\ last.res.error.message = "Unknown tool: echo"
    /\ isAuthenticated
    /\ authManager # 0
    /\ mgr[authManager].tokenCache # EmptyCache

(***************************************************************************)
(* C28: the condition of the DeviceCode fallback                           *)
(***************************************************************************)
\* The two texts are the same up to the case of their letters.
SameIgnoringCase(a, b) ==
    /\ Len(a) = Len(b)
    /\ \A n \in 1..Len(a) : LowerChar(SubSeq(a, n, n)) = LowerChar(SubSeq(b, n, n))

\* Some part of the text is one of the headless indicators, in any case.
MentionsIndicator(text) ==
    \E k \in 1..Len(headlessIndicators) :
        \E i \in 1..Len(text) :
            /\ i + Len(headlessIndicators[k]) - 1 <= Len(text)
            /\ SameIgnoringCase(
                   SubSeq(text, i, i + Len(headlessIndicators[k]) - 1),
                   headlessIndicators[k])

\* The errors of the first attempt whose message or name has an indicator.
HeadlessErrors ==
    {error \in CaughtErrors :
        MentionsIndicator(error.message) \/ MentionsIndicator(error.name)}

\* C28: a failed getToken of getAccessToken is retried with a DeviceCode
\* credential if and only if the credential is InteractiveBrowser and the
\* message or the name of the error has one of the headless indicators, in
\* any letter case; every other failure (on a DeviceCode credential, or
\* with no indicator) ends the call with an AuthenticationError after that
\* one request and leaves the credential as it was.
C28_FallbackCondition ==
    [][\A p \in Procs : \A outcome \in GetTokenFailures :
          GetTokenFails(p, outcome) =>
             LET M == mgr[proc[p].m]
                 retried == proc'[p].pc = "gat_wait2"
             IN  /\ retried <=>
                       (M.credential.kind = "InteractiveBrowser"
                           /\ CaughtError(outcome) \in HeadlessErrors)
                 /\ retried =>
                       /\ proc'[p].calls = 2
                       /\ mgr'[proc[p].m].credential.kind = "DeviceCode"
                 /\ ~retried =>
                       /\ proc'[p].pc = "idle"
                       /\ last'.calls = 1
                       /\ last'.res.status \in {"error", "isError"}
                       /\ last'.res.status = "error" =>
                             last'.res.error.name = "AuthenticationError"
                       /\ last'.res.error.code = "AUTHENTICATION_ERROR"
                       /\ proc[p].m = authManager =>
                             mgr'[authManager].credential = M.credential
      ]_vars

\* A direct call on a DeviceCode credential has failed with an error that
\* names CredentialUnavailableError, after one request.
C28_Witness ==
    /\ last.op = "token"
    /\ last.res.status = "error"
    /\ last.calls = 1
    /\ last.res.error.details.errorName = "CredentialUnavailableError"
    /\ SingletonInitialized
    /\ mgr[authManager].credential.kind = "DeviceCode"

(***************************************************************************)
(* C29: the number of provider requests of one call                        *)
(***************************************************************************)
\* How far a getAccessToken or requireAuthentication call has come.
Progress(pc) ==
    CASE pc = "ra_afterInit" -> 1
      [] pc = "gat_wait1" -> 2
      [] pc = "gat_wait2" -> 3
      [] pc = "ra_afterToken" -> 4
      [] pc = "ra_waitAuth" -> 5
      [] pc = "ra_afterRecord" -> 6
      [] OTHER -> 0

\* The getToken requests invocation p has made when the step is over.
CallsAfter(p) == IF proc'[p].pc = "idle" THEN last'.calls ELSE proc'[p].calls

\* C29: a getAccessToken call makes no getToken request on a cache hit, one
\* on a miss without fallback and two on a miss with fallback, never more;
\* a requireAuthentication call makes at most two; each step of such a call
\* takes it forward, so it ends; and a call that has thrown is over: it asks
\* the provider for nothing more.
C29_BoundedAttempts ==
    /\ [](\A p \in Procs :
            /\ proc[p].calls <= 2
            /\ proc[p].pc = "gat_wait1" => proc[p].calls = 1
            /\ proc[p].pc = "gat_wait2" => proc[p].calls = 2)
    /\ [](last.op \in {"token", "ensure"} =>
            /\ last.calls <= 2
            /\ last.res.status = "error" => \A p \in Procs : proc[p] = IdleProc)
    /\ [][\A p \in Procs :
            /\ \A scopes \in ScopeLists :
                  (StartToken(p, scopes) /\ proc'[p].pc = "idle") =>
                     last'.calls = 0
            /\ (StartToken(p, REQUIRED_SCOPES)
                   /\ SingletonInitialized
                   /\ CacheHit(mgr[authManager], REQUIRED_SCOPES, now)) =>
                     last'.res.status = "ok" /\ last'.calls = 0
            /\ \A lifetime \in Lifetimes :
                  GetTokenReturns(p, lifetime) =>
                     CallsAfter(p) = IF proc[p].pc = "gat_wait1" THEN 1 ELSE 2
            /\ \A outcome \in GetTokenFailures :
                  /\ GetTokenFails(p, outcome) =>
                        CallsAfter(p) = IF proc'[p].pc = "gat_wait2" THEN 2 ELSE 1
                  /\ RetryFails(p, outcome) =>
                        proc'[p].pc = "idle" /\ last'.calls = 2
            /\ (proc[p].op \in {"token", "ensure"} /\ proc'[p] # proc[p]) =>
                  \/ proc'[p].pc = "idle"
                  \/ /\ Progress(proc'[p].pc) > Progress(proc[p].pc)
                     /\ proc'[p].calls \in {proc[p].calls, proc[p].calls + 1}
         ]_vars

\* requireAuthentication has succeeded with two requests: the browser
\* attempt failed and the DeviceCode retry brought the token.
C29_Witness ==
    /\ last.op = "ensure"
    /\ last.res.status = "ok"
    /\ last.calls = 2
    /\ isAuthenticated

(***************************************************************************)
(* C30: the acquisition of the account record                              *)
(***************************************************************************)
\* How often requireAuthentication has awaited provider.authenticate.
Authenticates(steps) == Cardinality({i \in DOMAIN steps : steps[i] = "authenticate"})

\* C30: in requireAuthentication provider.authenticate is awaited if and
\* only if the manager holds no record after initialize and the token, and
\* at most once in a call; ensureAuthRecord on a manager that holds a record
\* returns at once, with no provider request and no write; when initialize
\* has loaded a record from a valid file the credential is constructed with
\* that record, and the record file is written only for a manager that
\* holds none, so a loaded file is not rewritten.
C30_RecordAcquiredOnce ==
    /\ [](\A p \in Procs :
            /\ Authenticates(proc[p].steps) <= 1
            /\ proc[p].pc = "ra_waitAuth" =>
                  /\ ~hasAuthRecord(mgr[proc[p].m])
                  /\ Authenticates(proc[p].steps) = 1)
    /\ []((last.op = "ensure" /\ last.res.status = "ok") =>
            /\ Authenticates(last.steps) <= 1
            /\ Authenticates(last.steps) = 1 <=>
                  last.steps = StepsToRecord \o << "ready" >>)
    /\ [][\A p \in Procs :
            /\ (StartEnsure(p) /\ proc'[p].pc = "ra_afterInit"
                   /\ loadAuthRecord # NoRecord) =>
                  /\ mgr'[proc'[p].m].authRecord = loadAuthRecord
                  /\ mgr'[proc'[p].m].credential.authenticationRecord = loadAuthRecord
            /\ (proc[p].inRA /\ proc'[p].inRA /\ proc'[p].pc # "ra_afterRecord") =>
                  mgr'[proc'[p].m].authRecord = mgr[proc[p].m].authRecord
            /\ RaAfterToken(p) =>
                  (proc'[p].pc = "ra_waitAuth" <=> ~hasAuthRecord(mgr[proc[p].m]))
            /\ (EnsureAuthRecord(p) /\ authManager # 0
                   /\ hasAuthRecord(mgr[authManager])) =>
                  /\ last'.op = "ensureAuthRecord"
                  /\ last'.res.status = "ok"
                  /\ last'.steps = << >>
                  /\ UNCHANGED << authManager, mgr, authFile, authDir, issued,
                                  isAuthenticated >>
            /\ authFile' # authFile /\ authFile'.exists =>
                  \E q \in Procs :
                     /\ proc[q].pc = "ra_waitAuth"
                     /\ ~hasAuthRecord(mgr[proc[q].m])
         ]_vars

\* requireAuthentication has succeeded on a record loaded from the file,
\* without asking for a record, and the file is as it was found.
C30_Witness ==
    /\ last.op = "ensure"
    /\ last.res.status = "ok"
    /\ last.steps = StepsToToken \o << "ready" >>
    /\ authManager # 0
    /\ mgr[authManager].credential.authenticationRecord = "alice@contoso.com"
    /\ authFile.exists
    /\ authFile.mode = MODE_0600

\* ensureAuthRecord has returned at once on a manager that holds a record.
C30_Idempotent ==
    /\ last.op = "ensureAuthRecord"
    /\ last.res.status = "ok"
    /\ last.steps = << >>
    /\ authManager # 0
    /\ hasAuthRecord(mgr[authManager])

(***************************************************************************)
(* C31: the credential after the fallback                                  *)
(***************************************************************************)
\* The step calls initialize() on the singleton: directly, or through
\* requireAuthentication with the readiness flag false.
CallsInitialize(p) ==
    \/ Initialize(p)
    \/ ~isAuthenticated /\ StartEnsure(p)
    \/ ~isAuthenticated /\ \E valid \in BOOLEAN : StartTool(p, valid)

\* C31: when getAccessToken takes the fallback the manager's credential
\* becomes the DeviceCode credential; it stays so whether the retry returns
\* or fails and through every later getAccessToken call, and on the same
\* manager it is InteractiveBrowser again only by a step that calls
\* initialize().
C31_FallbackCredentialKept ==
    [][\A p \in Procs :
          /\ \A outcome \in GetTokenFailures :
                (GetTokenFails(p, outcome) /\ proc'[p].pc = "gat_wait2") =>
                   mgr'[proc[p].m].credential.kind = "DeviceCode"
          /\ (proc[p].pc = "gat_wait2" /\ proc'[p] # proc[p]
                 /\ authManager' = proc[p].m) =>
                mgr'[authManager'].credential.kind = "DeviceCode"
          /\ \A scopes \in ScopeLists :
                (StartToken(p, scopes) /\ authManager # 0) =>
                   mgr'[authManager'].credential = mgr[authManager].credential
          /\ (/\ authManager # 0
              /\ authManager' = authManager
              /\ mgr[authManager].credential.kind = "DeviceCode"
              /\ mgr'[authManager].credential.kind # "DeviceCode") =>
                /\ \E q \in Procs : CallsInitialize(q)
                /\ mgr[authManager].config.authMethod # "DeviceCode"
                /\ mgr'[authManager].credential.kind = "InteractiveBrowser"
      ]_vars

\* A later getAccessToken call has made its one request on the DeviceCode
\* credential of a manager that is configured for InteractiveBrowser.
C31_Witness ==
    /\ last.op = "token"
    /\ last.res.status = "ok"
    /\ last.calls = 1
    /\ SingletonInitialized
    /\ mgr[authManager].config.authMethod # "DeviceCode"
    /\ mgr[authManager].credential.kind = "DeviceCode"

(***************************************************************************)
(* C32: a getAccessToken call that raises                                  *)
(***************************************************************************)
\* The invocation is inside getAccessToken, awaiting the provider.
InGetAccessToken(p) == proc[p].pc \in {"gat_wait1", "gat_wait2"}

\* C32: every step of a getAccessToken call other than the one in which the
\* provider returns a token (and so every step of a call that raises) leaves
\* the manager's token cache as it was, an expired entry included, and leaves
\* the readiness flag as it was; a call that raises at its entry does so on
\* the cache the manager had.
C32_RaisingCallKeepsCache ==
    [][\A p \in Procs :
          /\ (/\ InGetAccessToken(p)
              /\ proc'[p] # proc[p]
              /\ ~(\E lifetime \in Lifetimes : GetTokenReturns(p, lifetime))) =>
                /\ authManager' = authManager
                /\ mgr'[proc[p].m].tokenCache = mgr[proc[p].m].tokenCache
                /\ isAuthenticated' = isAuthenticated
          /\ \A scopes \in ScopeLists :
                (StartToken(p, scopes) /\ last'.res.status # "ok") =>
                   /\ mgr'[authManager'].tokenCache =
                         (IF authManager # 0 THEN mgr[authManager].tokenCache
                                             ELSE EmptyCache)
                   /\ isAuthenticated' = isAuthenticated
          /\ (last'.op = "token" /\ last'.res.status = "error") =>
                /\ last'.pre.ready = isAuthenticated'
                /\ last'.pre.cached = (mgr'[authManager'].tokenCache # EmptyCache)
      ]_vars

\* A direct getAccessToken call has raised after asking the provider, and the
\* expired entry it found for its key is still in the cache.
C32_Witness ==
    /\ last.op = "token"
    /\ last.res.status = "error"
    /\ last.calls >= 1
    /\ authManager # 0
    /\ HasEntry(mgr[authManager], REQUIRED_SCOPES)
    /\ ~InsideWindow(mgr[authManager], REQUIRED_SCOPES)

(***************************************************************************)
(* C33: readiness implies an initialized singleton                         *)
(***************************************************************************)
NotInitializedMessage == "Authentication not initialized. Call initialize() first."

\* C33: under sequential dispatch, whenever the readiness flag is true the
\* manager singleton exists and its credential is not null; a tool that has
\* passed requireAuthentication is in such a state, and no tool call ends
\* with the error 'Authentication not initialized'.
C33_ReadyImpliesInitialized ==
    /\ isAuthenticated => SingletonInitialized
    /\ \A p \in Procs :
          proc[p].pc \in {"tool_afterAuth", "tool_afterToken", "tool_waitApi"} =>
             isAuthenticated /\ SingletonInitialized
    /\ last.op = "tool" => last.res.error.message # NotInitializedMessage

\* A tool call that found the readiness flag true has obtained its token from
\* the singleton and returned the Graph API result.
C33_Witness ==
    /\ last.op = "tool"
    /\ last.res.status = "ok"
    /\ last.pre.ready
    /\ last.steps = << "fast", "graph" >>
    /\ isAuthenticated
    /\ SingletonInitialized

(***************************************************************************)
(* Tool invocations of the call_tool handler overlapping with logout():    *)
(* each invocation advances from one await to the next, in any order.      *)
(***************************************************************************)
ToolRaceOps(p) ==
    \/ StartTool(p, TRUE)
    \/ RaAfterInit(p)
    \/ \E lifetime \in Lifetimes : GetTokenReturns(p, lifetime)
    \/ \E outcome \in GetTokenFailures : GetTokenFails(p, outcome)
    \/ \E outcome \in GetTokenFailures : RetryFails(p, outcome)
    \/ RaAfterToken(p)
    \/ \E record \in Accounts : AuthenticateReturns(p, record, "none")
    \/ AuthenticateFails(p)
    \/ RaAfterRecord(p)
    \/ ToolAfterAuth(p)
    \/ ToolAfterToken(p)
    \/ \E ok \in BOOLEAN : GraphResponds(p, ok)
    \/ Logout(p, "none")

ToolRaceNext == \E p \in Procs : ToolRaceOps(p)

ToolRaceSpec == ConcInit /\ [][ToolRaceNext]_vars

(***************************************************************************)
(* C34: logout() while a tool invocation is suspended                      *)
(***************************************************************************)
\* The invocation is a tool past its requireAuthentication.
ToolPastAuth(p) == proc[p].op = "tool" /\ ~proc[p].inRA /\ proc[p].pc # "idle"

\* No tool call ends with the error 'Authentication not initialized'.
C34_ToolFindsInitializedManager ==
    last.op = "tool" => last.res.error.message # NotInitializedMessage

\* The token a tool's getAccessToken obtains from the provider is cached in
\* the manager that is the singleton.
C34_TokenCachedInSingleton ==
    [][\A p \in Procs :
          (ToolPastAuth(p) /\ \E lifetime \in Lifetimes : GetTokenReturns(p, lifetime))
             => proc[p].m = authManager
      ]_vars

\* C34: when logout() runs while a tool invocation is suspended at an await
\* after its requireAuthentication succeeded, the tool still obtains its token
\* from an initialized manager: no tool call fails with 'Authentication not
\* initialized', and no token acquired after the logout is cached in a
\* manager that is no longer the singleton.
C34_LogoutDuringTool ==
    /\ [](last.op = "tool" => last.res.error.message # NotInitializedMessage)
    /\ [][\A p \in Procs :
             (ToolPastAuth(p) /\ \E lifetime \in Lifetimes : GetTokenReturns(p, lifetime))
                => proc[p].m = authManager
         ]_vars

(***************************************************************************)
(* C35: the record a manager holds after initialize()                      *)
(***************************************************************************)
\* The step is an initialize() on the singleton that returned normally:
\* called directly, or awaited by requireAuthentication.
InitializeReturned(p) ==
    \/ Initialize(p) /\ last'.res.status = "ok"
    \/ proc[p].pc = "idle" /\ proc'[p].pc = "ra_afterInit"

\* hasAuthRecord() agrees with the record the credential was constructed with.
RecordAgreesWithCredential(M) ==
    hasAuthRecord(M) <=> (M.credential.authenticationRecord # NoRecord)

\* C35: after every initialize() call on a manager, hasAuthRecord() is true
\* if and only if the credential just constructed was given a record; when
\* the record file is absent or unreadable at that call, hasAuthRecord() is
\* false afterwards.
C35_RecordStateAfterInitialize ==
    [][\A p \in Procs :
          InitializeReturned(p) =>
             /\ RecordAgreesWithCredential(mgr'[authManager'])
             /\ (loadAuthRecord = NoRecord) => ~hasAuthRecord(mgr'[authManager'])
      ]_vars

\* The same for an initialize() on a manager that holds no record when the
\* call begins (its first initialize among them).
C35_FirstInitialize ==
    [][\A p \in Procs :
          (/\ InitializeReturned(p)
           /\ authManager # 0 => ~hasAuthRecord(mgr[authManager])) =>
             /\ RecordAgreesWithCredential(mgr'[authManager'])
             /\ (loadAuthRecord = NoRecord) => ~hasAuthRecord(mgr'[authManager'])
      ]_vars

(***************************************************************************)
(* C36: the conversation cache when copilotChat fails                      *)
(***************************************************************************)
\* C36: in a copilotChat call without conversationId on an empty cache, a
\* failing createConversation leaves the cached id null; a failing send after
\* the conversation was created leaves the created id cached, and the next
\* call without conversationId sends to it; no step of a call with an
\* explicit conversationId changes the cached id.
C36_ChatCacheOnFailure ==
    [][\A p \in Procs :
          /\ CreateFails(p) =>
                /\ proc[p].conversationId = ""
                /\ cachedConversationId = NoConversation
                /\ cachedConversationId' = NoConversation
                /\ last'.res.status = "error"
          /\ (SendResponds(p, FALSE) /\ proc[p].steps = << "create", "send" >>) =>
                /\ cachedConversationId' = proc[p].active
                /\ cachedConversationId' \in ConversationIds
                /\ last'.res.status = "error"
          /\ (ChatAfterToken(p) /\ proc[p].conversationId = ""
                 /\ cachedConversationId # NoConversation) =>
                /\ proc'[p].pc = "chat_waitSend"
                /\ proc'[p].active = cachedConversationId
                /\ UNCHANGED cachedConversationId
          /\ ((proc[p].op = "chat" \/ proc'[p].op = "chat" \/ last'.op = "chat")
                 /\ (IF proc[p].pc = "idle" THEN proc'[p].conversationId
                                            ELSE proc[p].conversationId) # "") =>
                UNCHANGED cachedConversationId
      ]_vars

\* A call without conversationId has created a conversation and failed to
\* send: the created id is cached.
C36_Witness ==
    /\ last.op = "chat"
    /\ last.res.status = "error"
    /\ last.steps = << "create", "send" >>
    /\ cachedConversationId \in ConversationIds

(***************************************************************************)
(* copilotChat called one call after the other, with logout() and          *)
(* requireAuthentication() between the calls.                              *)
(***************************************************************************)
ChatSessionOps(p) ==
    \/ ChatOps(p)
    \/ StartEnsure(p)
    \/ RaAfterInit(p)
    \/ RaAfterToken(p)
    \/ \E record \in Accounts : AuthenticateReturns(p, record, "none")
    \/ AuthenticateFails(p)
    \/ RaAfterRecord(p)
    \/ \E fault \in LogoutFaults : Logout(p, fault)

ChatSessionNext == ChatSessionOps(1)

ChatSessionSpec == Init /\ [][ChatSessionNext]_vars

(***************************************************************************)
(* C37: what changes the cached conversation id                            *)
(***************************************************************************)
\* C37: the cached conversation id changes only when copilotChat has created
\* a conversation (from null to the new id) and in clearConversationCache (to
\* null); logout() and requireAuthentication leave it as it is, and a chat
\* call without conversationId that finds an id cached sends to that id,
\* whatever logout and authentication happened since it was created.
C37_ConversationCacheFrame ==
    [][/\ cachedConversationId' # cachedConversationId =>
             \E p \in Procs :
                \/ /\ \E id \in ConversationIds : CreateResponds(p, id)
                   /\ cachedConversationId = NoConversation
                   /\ cachedConversationId' \in ConversationIds
                \/ /\ ClearConversationCache(p)
                   /\ cachedConversationId' = NoConversation
       /\ \A p \in Procs :
             /\ (proc[p].op \in {"ensure", "logout"}
                    \/ proc'[p].op \in {"ensure", "logout"}
                    \/ last'.op \in {"ensure", "logout"}) =>
                   UNCHANGED cachedConversationId
             /\ (ChatAfterToken(p) /\ proc[p].conversationId = ""
                    /\ cachedConversationId # NoConversation) =>
                   /\ proc'[p].pc = "chat_waitSend"
                   /\ proc'[p].active = cachedConversationId
                   /\ proc'[p].steps = << "reuse", "send" >>
      ]_vars

\* logout() has returned, discarding the manager, and the conversation id a
\* chat call created before it is still cached.
C37_Witness ==
    /\ last.op = "logout"
    /\ last.res.status = "ok"
    /\ last.pre.manager
    /\ authManager = 0
    /\ ~isAuthenticated
    /\ cachedConversationId \in ConversationIds

(***************************************************************************)
(* C38: authentication before parameter validation                         *)
(***************************************************************************)
\* The response is the payload of a failed parameter validation.
ValidationFailurePayload(res) ==
    /\ res.status = "isError"
    /\ res.error.code = "VALIDATION_ERROR"
    /\ res.error.message = "Parameter must be a non-empty string"

\* C38: a tool call whose required parameter fails validation authenticates
\* first.  Started with the readiness flag false it runs requireAuthentication
\* in full (configuration check, initialize, token, the record when none is
\* held, flag set) and returns the ValidationError payload only with the flag
\* true and a token cached, or returns the authentication failure payload;
\* started with the flag true it returns the ValidationError payload with no
\* provider request; in neither case is the Graph API called.
C38_AuthenticationBeforeValidation ==
    /\ [](\A p \in Procs :
            (proc[p].op = "tool" /\ ~proc[p].valid /\ proc[p].pc # "idle") =>
               proc[p].pc \in {"ra_afterInit", "gat_wait1", "gat_wait2", "ra_afterToken",
                               "ra_waitAuth", "ra_afterRecord", "tool_afterAuth"})
    /\ []((last.op = "tool" /\ ValidationFailurePayload(last.res)) =>
            /\ isAuthenticated
            /\ SingletonInitialized
            /\ last.steps \in StepsAuthenticated
            /\ last.steps = << "fast" >> => last.calls = 0
            /\ last.steps # << "fast" >> =>
                  HasEntry(mgr[authManager], REQUIRED_SCOPES))
    /\ [][\A p \in Procs :
            /\ StartTool(p, FALSE) =>
                  IF isAuthenticated
                  THEN /\ proc'[p].pc = "tool_afterAuth"
                       /\ proc'[p].steps = << "fast" >>
                       /\ proc'[p].calls = 0
                  ELSE \/ proc'[p].pc = "ra_afterInit"
                       \/ /\ last'.op = "tool"
                          /\ last'.res.status = "isError"
                          /\ last'.res.error.code = "AUTHENTICATION_ERROR"
            /\ (proc[p].op = "tool" /\ ~proc[p].valid /\ proc[p].pc # "idle"
                   /\ proc'[p].pc = "idle") =>
                  /\ last'.res.status = "isError"
                  /\ "graph" \notin {proc[p].steps[i] : i \in DOMAIN proc[p].steps}
                  /\ IF proc[p].pc = "tool_afterAuth"
                     THEN isAuthenticated /\ ValidationFailurePayload(last'.res)
                     ELSE ~isAuthenticated'
                             /\ last'.res.error.code = "AUTHENTICATION_ERROR"
         ]_vars

\* A tool call with an invalid parameter, started with the readiness flag
\* false, has gone through the login (a provider request, the flag set) and
\* then returned the ValidationError payload.
C38_Witness ==
    /\ last.op = "tool"
    /\ ValidationFailurePayload(last.res)
    /\ last.steps \in {StepsToToken \o << "ready" >>, StepsToRecord \o << "ready" >>}
    /\ last.calls >= 1
    /\ isAuthenticated
    /\ HasEntry(mgr[authManager], REQUIRED_SCOPES)

====
